---- MODULE Spec2Model ----
(***************************************************************************)
(* A model of the MIDI transposer: the shared runtime state (transpose     *)
(* offset and feature flags), the control surfaces that write it (stdin    *)
(* handler, OSC listener, MQTT listener), the MIDI forwarding pipeline     *)
(* (input callback, forwarder, OSC senders) and the pure note transposer.  *)
(***************************************************************************)
EXTENDS Integers, Sequences, FiniteSets, TLC

(***************************************************************************)
(* Machine integers.  i32 values are kept at their width: sums that leave  *)
(* the range either wrap (overflow checks off) or panic (overflow checks   *)
(* on).                                                                    *)
(***************************************************************************)
MaxI32 == 2147483647
MinI32 == -MaxI32 - 1

\* a + b does not fit an i32
Overflows32(a, b) ==
    \/ a > 0 /\ b > 0 /\ a > MaxI32 - b
    \/ a < 0 /\ b < 0 /\ a < MinI32 - b

\* two's complement a + b, computed without leaving the 32-bit range
WrapAdd32(a, b) ==
    IF a > 0 /\ b > 0 /\ a > MaxI32 - b THEN (a + MinI32) + (b + MinI32)
    ELSE IF a < 0 /\ b < 0 /\ a < MinI32 - b THEN (a - MinI32) + (b - MinI32)
    ELSE a + b

\* Ord::clamp on i32 (callers guarantee lo <= hi, else Rust panics)
ClampI32(v, lo, hi) == IF v < lo THEN lo ELSE IF v > hi THEN hi ELSE v

(***************************************************************************)
(* general/transpose.rs                                                    *)
(***************************************************************************)
\* buf[0] & 0xF0
StatusNibble(b) == b - (b % 16)

NOTE_OFF == 128
NOTE_ON == 144

\* the message is a note-on/note-off that carries a note byte
HasNoteByte(buf) ==
    /\ Len(buf) > 1
    /\ StatusNibble(buf[1]) \in {NOTE_OFF, NOTE_ON}

\* the addition `note + semitones` of apply_transpose is reached and overflows
apply_transpose_overflows(buf, semitones) ==
    HasNoteByte(buf) /\ Overflows32(buf[2], semitones)

\* a transposer that shifts byte 1 whatever the status
apply_transpose_any_status(buf, semitones) ==
    IF Len(buf) > 1
    THEN [buf EXCEPT ![2] = ClampI32(WrapAdd32(buf[2], semitones), 0, 127)]
    ELSE buf

\* apply_transpose where the addition wraps (or does not overflow); 1-based
\* sequences stand for the 0-based byte buffer
apply_transpose(buf, semitones) ==
    IF Len(buf) = 0 THEN buf
    ELSE IF StatusNibble(buf[1]) \in {NOTE_OFF, NOTE_ON}
         THEN IF Len(buf) > 1
              THEN [buf EXCEPT ![2] = ClampI32(WrapAdd32(buf[2], semitones), 0, 127)]
              ELSE buf
         ELSE buf

(***************************************************************************)
(* Text: a string is a sequence of one-character strings, so that trim,    *)
(* case folding, splitting and integer parsing are computed as Rust's      *)
(* str methods compute them.                                               *)
(***************************************************************************)
UpperCase == <<"A", "B", "C", "D", "E", "F", "G", "H", "I", "J", "K", "L", "M",
               "N", "O", "P", "Q", "R", "S", "T", "U", "V", "W", "X", "Y", "Z">>
LowerCase == <<"a", "b", "c", "d", "e", "f", "g", "h", "i", "j", "k", "l", "m",
               "n", "o", "p", "q", "r", "s", "t", "u", "v", "w", "x", "y", "z">>
Digits == <<"0", "1", "2", "3", "4", "5", "6", "7", "8", "9">>

IsUpper(c) == \E i \in DOMAIN UpperCase : UpperCase[i] = c
IsDigit(c) == \E i \in DOMAIN Digits : Digits[i] = c
DigitVal(c) == (CHOOSE i \in DOMAIN Digits : Digits[i] = c) - 1

to_ascii_lowercase_char(c) ==
    IF IsUpper(c) THEN LowerCase[CHOOSE i \in DOMAIN UpperCase : UpperCase[i] = c] ELSE c

\* str::to_ascii_lowercase
to_ascii_lowercase(s) == [i \in 1..Len(s) |-> to_ascii_lowercase_char(s[i])]

\* a comparison that tells the letter cases apart (`==` on str)
eq_case_sensitive(a, b) == a = b

\* str::eq_ignore_ascii_case
eq_ignore_ascii_case(a, b) ==
    /\ Len(a) = Len(b)
    /\ \A i \in 1..Len(a) : to_ascii_lowercase_char(a[i]) = to_ascii_lowercase_char(b[i])

is_whitespace(c) == c \in {" ", "\t", "\n", "\r"}

\* str::trim
trim(s) ==
    LET keep == {i \in 1..Len(s) : ~is_whitespace(s[i])} IN
    IF keep = {} THEN <<>>
    ELSE SubSeq(s, CHOOSE i \in keep : \A j \in keep : i <= j,
                   CHOOSE i \in keep : \A j \in keep : i >= j)

\* str::starts_with
starts_with(s, p) == Len(s) >= Len(p) /\ SubSeq(s, 1, Len(p)) = p

\* cmd.split(|c| c == ' ' || c == ':'): the positions of the separators
SplitPoints(s) == {i \in 1..Len(s) : s[i] \in {" ", ":"}}

\* parts.len() of the split
SplitLen(s) == Cardinality(SplitPoints(s)) + 1

\* parts[1] of the split (SplitLen(s) >= 2)
SplitSecond(s) ==
    LET pts == SplitPoints(s)
        p1 == CHOOSE i \in pts : \A j \in pts : i <= j
        rest == pts \ {p1}
        p2 == IF rest = {} THEN Len(s) + 1
              ELSE CHOOSE i \in rest : \A j \in rest : i <= j
    IN SubSeq(s, p1 + 1, p2 - 1)

ParseErr == [ok |-> FALSE, v |-> 0]

\* the digit loop of i32::from_str: the accumulator never leaves the i32 range
RECURSIVE ParseDigits(_, _, _, _)
ParseDigits(s, i, acc, neg) ==
    IF i > Len(s) THEN [ok |-> TRUE, v |-> acc]
    ELSE IF ~IsDigit(s[i]) THEN ParseErr
    ELSE LET d == DigitVal(s[i]) IN
         IF ~neg
         THEN IF acc > (MaxI32 - d) \div 10 THEN ParseErr
              ELSE ParseDigits(s, i + 1, acc * 10 + d, neg)
         ELSE IF (-acc) > (IF d = 0 THEN MaxI32 \div 10 ELSE (MaxI32 - (d - 1)) \div 10)
              THEN ParseErr
              ELSE ParseDigits(s, i + 1, acc * 10 - d, neg)

\* str::parse::<i32>: an optional sign, then at least one digit, no overflow
parse_i32(s) ==
    IF Len(s) = 0 THEN ParseErr
    ELSE IF s[1] \in {"+", "-"}
         THEN IF Len(s) = 1 THEN ParseErr
              ELSE ParseDigits(s, 2, 0, s[1] = "-")
         ELSE ParseDigits(s, 1, 0, FALSE)

\* the decimal digits of n >= 0
RECURSIVE NatToString(_)
NatToString(n) ==
    IF n < 10 THEN <<Digits[n + 1]>>
    ELSE NatToString(n \div 10) \o <<Digits[(n % 10) + 1]>>

\* i32::to_string
to_string(n) ==
    IF n >= 0 THEN NatToString(n)
    ELSE IF n = MinI32 THEN <<"-">> \o NatToString(MaxI32 \div 10) \o <<"8">>
    ELSE <<"-">> \o NatToString(-n)

(***************************************************************************)
(* State                                                                   *)
(***************************************************************************)
VARIABLES
    cfg,                    \* GLOBAL_CONFIG: the configuration loaded at startup
    TRANSPOSE_SEMITONES,    \* AtomicI32
    EXIT_FLAG,              \* AtomicBool
    DEBUG_ENABLED,          \* AtomicBool
    OSC_SENDING_ENABLED,    \* AtomicBool
    OSC_SEND_ORIGINAL,      \* AtomicBool
    MQTT_ENABLED,           \* AtomicBool
    lastSet,                \* the most recent call of set_transpose_semitones
    MQTT_CONNECTED,         \* AtomicBool
    stdin,                  \* the stdin handler thread
    osc,                    \* the OSC listener thread
    mqtt,                   \* the MQTT listener threads, by the thread that spawned them
    published,              \* the broker: the retained payload of each state topic
    brokerEvents,           \* the broker: how many counted events it has delivered
    env,                    \* the environment of this run: the inputs it may deliver
    probe,                  \* a call of a pure function under test
    conn_in,                \* _conn_in: the input connection, owner of the callback
    callback,               \* the input callback, run by the MIDI driver
    rx,                     \* the channel tx -> rx: what is in it
    osc_rx,                 \* the channels osc_original_tx/rx and osc_transposed_tx/rx
    forwarder,              \* the forwarder thread
    conn_out,               \* the output connection: what has been handed to conn_out.send
    senders,                \* the two OSC sender threads
    enqueued,               \* history: what each channel has accepted so far
    mainThread              \* run() from its wait loop on

shared == <<TRANSPOSE_SEMITONES, EXIT_FLAG, DEBUG_ENABLED, OSC_SENDING_ENABLED,
            OSC_SEND_ORIGINAL, MQTT_ENABLED>>
flags == <<DEBUG_ENABLED, OSC_SENDING_ENABLED, OSC_SEND_ORIGINAL, MQTT_ENABLED>>

control == <<MQTT_CONNECTED, lastSet, stdin, osc, mqtt, published, brokerEvents>>
pipeline == <<conn_in, callback, rx, osc_rx, forwarder, conn_out, senders, enqueued,
              mainThread>>

vars == <<cfg, shared, control, env, probe, pipeline>>

MqttThreads == {"main", "stdin"}

MqttNotSpawned ==
    [pc |-> "none", session |-> FALSE, disconnect |-> FALSE, current |-> 0, last_state_sent |-> 0,
     last_osc_enabled |-> FALSE, last_send_original |-> FALSE, last_debug_enabled |-> FALSE]

\* spawn_mqtt_listener: the new thread is about to enter run_mqtt_message_loop
MqttSpawned == [MqttNotSpawned EXCEPT !.pc = "start"]

NoProbe == [fn |-> "none"]

(***************************************************************************)
(* main.rs: configuration and the clamp-and-store setter                   *)
(***************************************************************************)
\* load_config's default_config
DefaultConfig ==
    [min |-> -24, max |-> 24, debug |-> FALSE, sending_enabled |-> FALSE,
     send_original |-> TRUE, mqtt_enabled |-> TRUE]

\* TransposeConfig { min: i8, max: i8 }: the ranges tried, each with min <= max
Ranges == {<<-24, 24>>, <<-2, 3>>, <<1, 3>>, <<-3, -1>>, <<0, 0>>}

Configs ==
    {[DefaultConfig EXCEPT !.min = r[1], !.max = r[2]] : r \in Ranges}
    \cup {[DefaultConfig EXCEPT !.sending_enabled = TRUE, !.send_original = FALSE,
                                !.mqtt_enabled = FALSE, !.debug = TRUE]}

NoCall == [who |-> "none", arg |-> 0, ret |-> 0]

\* a setter that stores the value as given
set_transpose_semitones_unclamped(value) == value

\* set_transpose_semitones: the value it stores and returns
set_transpose_semitones(value) == ClampI32(value, cfg.min, cfg.max)

\* a setter that takes the value as a step from the current offset
SetTranspose_relative(who, value) ==
    /\ TRANSPOSE_SEMITONES' = ClampI32(WrapAdd32(TRANSPOSE_SEMITONES, value), cfg.min, cfg.max)
    /\ lastSet' = [who |-> who, arg |-> value,
                   ret |-> ClampI32(WrapAdd32(TRANSPOSE_SEMITONES, value), cfg.min, cfg.max)]

\* a call of set_transpose_semitones(value) by thread `who`
SetTranspose(who, value) ==
    /\ TRANSPOSE_SEMITONES' = set_transpose_semitones(value)
    /\ lastSet' = [who |-> who, arg |-> value, ret |-> set_transpose_semitones(value)]

(***************************************************************************)
(* general/stdin_handler.rs                                                *)
(***************************************************************************)
S_exit == <<"e", "x", "i", "t">>
S_quit == <<"q", "u", "i", "t">>
S_q == <<"q">>
S_debug_on == <<"d", "e", "b", "u", "g", " ", "o", "n">>
S_debug_enable == <<"d", "e", "b", "u", "g", " ", "e", "n", "a", "b", "l", "e">>
S_debug_off == <<"d", "e", "b", "u", "g", " ", "o", "f", "f">>
S_debug_disable == <<"d", "e", "b", "u", "g", " ", "d", "i", "s", "a", "b", "l", "e">>
S_osc_on == <<"o", "s", "c", " ", "o", "n">>
S_osc_enable == <<"o", "s", "c", " ", "e", "n", "a", "b", "l", "e">>
S_osc_off == <<"o", "s", "c", " ", "o", "f", "f">>
S_osc_disable == <<"o", "s", "c", " ", "d", "i", "s", "a", "b", "l", "e">>
S_osc_original == <<"o", "s", "c", " ", "o", "r", "i", "g", "i", "n", "a", "l">>
S_osc_input == <<"o", "s", "c", " ", "i", "n", "p", "u", "t">>
S_osc_transposed == <<"o", "s", "c", " ", "t", "r", "a", "n", "s", "p", "o", "s", "e", "d">>
S_osc_output == <<"o", "s", "c", " ", "o", "u", "t", "p", "u", "t">>
S_osc__original == <<"o", "s", "c", "_", "o", "r", "i", "g", "i", "n", "a", "l">>
S_osc__transposed == <<"o", "s", "c", "_", "t", "r", "a", "n", "s", "p", "o", "s", "e", "d">>
S_help == <<"h", "e", "l", "p">>
S_h == <<"h">>
S_mqtt_on == <<"m", "q", "t", "t", " ", "o", "n">>
S_mqtt_enable == <<"m", "q", "t", "t", " ", "e", "n", "a", "b", "l", "e">>
S_mqtt_off == <<"m", "q", "t", "t", " ", "o", "f", "f">>
S_mqtt_disable == <<"m", "q", "t", "t", " ", "d", "i", "s", "a", "b", "l", "e">>

\* the guard of the `osc_original <value>` block
IsOscOriginalForm(cmd) ==
    \/ starts_with(cmd, S_osc__original \o <<" ">>)
    \/ starts_with(cmd, S_osc__original \o <<":">>)
    \/ eq_ignore_ascii_case(cmd, S_osc__original \o <<" ", "o", "n">>)
    \/ eq_ignore_ascii_case(cmd, S_osc__original \o <<" ", "o", "f", "f">>)
    \/ eq_ignore_ascii_case(cmd, S_osc__original \o <<" ", "e", "n", "a", "b", "l", "e">>)
    \/ eq_ignore_ascii_case(cmd, S_osc__original \o <<" ", "d", "i", "s", "a", "b", "l", "e">>)

\* what the `osc_original <value>` block does: store true, store false, or fall through
OscOriginalForm(cmd) ==
    IF SplitLen(cmd) >= 2
    THEN LET second == trim(SplitSecond(cmd)) IN
         IF second = <<"1">> THEN "orig_on"
         ELSE IF second = <<"0">> THEN "orig_off"
         ELSE IF \/ eq_ignore_ascii_case(cmd, S_osc__original \o <<" ", "o", "n">>)
                 \/ eq_ignore_ascii_case(cmd, S_osc__original \o <<" ", "e", "n", "a", "b", "l", "e">>)
              THEN "orig_on"
         ELSE IF \/ eq_ignore_ascii_case(cmd, S_osc__original \o <<" ", "o", "f", "f">>)
                 \/ eq_ignore_ascii_case(cmd, S_osc__original \o <<" ", "d", "i", "s", "a", "b", "l", "e">>)
              THEN "orig_off"
         ELSE "fallthrough"
    ELSE "fallthrough"

\* the tail of the if-chain, after the `osc_original <value>` block
stdin_branch_tail(cmd) ==
    IF eq_ignore_ascii_case(cmd, S_help) \/ eq_ignore_ascii_case(cmd, S_h) THEN "help"
    ELSE IF eq_ignore_ascii_case(cmd, S_mqtt_on) \/ eq_ignore_ascii_case(cmd, S_mqtt_enable)
         THEN "mqtt_on"
    ELSE IF eq_ignore_ascii_case(cmd, S_mqtt_off) \/ eq_ignore_ascii_case(cmd, S_mqtt_disable)
         THEN "mqtt_off"
    ELSE IF parse_i32(cmd).ok THEN "number"
    ELSE "unrecognized"

\* the if-chain of the handler loop, in the order of the code: the branch a
\* trimmed line takes
stdin_branch(cmd) ==
    IF Len(cmd) = 0 THEN "exit"
    ELSE IF \/ eq_ignore_ascii_case(cmd, S_exit) \/ eq_ignore_ascii_case(cmd, S_quit)
            \/ eq_ignore_ascii_case(cmd, S_q)
         THEN "exit"
    ELSE IF eq_ignore_ascii_case(cmd, S_debug_on) \/ eq_ignore_ascii_case(cmd, S_debug_enable)
         THEN "debug_on"
    ELSE IF eq_ignore_ascii_case(cmd, S_debug_off) \/ eq_ignore_ascii_case(cmd, S_debug_disable)
         THEN "debug_off"
    ELSE IF \/ eq_ignore_ascii_case(cmd, S_osc_on) \/ eq_ignore_ascii_case(cmd, S_osc_enable)
            \/ cmd = <<"1">>
         THEN "osc_on"
    ELSE IF \/ eq_ignore_ascii_case(cmd, S_osc_off) \/ eq_ignore_ascii_case(cmd, S_osc_disable)
            \/ cmd = <<"0">>
         THEN "osc_off"
    ELSE IF \/ eq_ignore_ascii_case(cmd, S_osc_original) \/ eq_ignore_ascii_case(cmd, S_osc_input)
            \/ eq_ignore_ascii_case(cmd, S_osc__original)
         THEN "orig_on"
    ELSE IF \/ eq_ignore_ascii_case(cmd, S_osc_transposed) \/ eq_ignore_ascii_case(cmd, S_osc_output)
            \/ eq_ignore_ascii_case(cmd, S_osc__transposed)
         THEN "orig_off"
    ELSE IF IsOscOriginalForm(cmd) /\ OscOriginalForm(cmd) # "fallthrough"
         THEN OscOriginalForm(cmd)
    ELSE stdin_branch_tail(cmd)

\* the lines typed at the console, each ending in a newline as read_line
\* returns it; <<>> is end of input (read_line returns Ok(0))
LineTexts ==
    {<<>>, S_exit, <<"Q", "U", "I", "T">>, <<"Q">>,
     S_debug_on, <<"D", "e", "b", "u", "g", " ", "O", "F", "F">>,
     S_osc_on, S_osc_off, <<"O", "S", "C", " ", "O", "N">>, S_osc_disable,
     S_osc_original, S_osc_transposed, S_osc_input, S_osc_output,
     S_osc__original, S_osc__original \o <<" ", "1">>, S_osc__original \o <<":", "0">>,
     S_osc__original \o <<" ", "x">>, S_osc__original \o <<" ", "o", "f", "f">>,
     S_mqtt_on, S_mqtt_off, S_help,
     <<"0">>, <<"1">>, <<"+", "1">>, <<"-", "0">>, <<"0", "1">>, <<"3">>, <<"5">>,
     <<"-", "1">>, <<"-", "3", "0">>, <<"7", "0">>, <<" ", "2", " ">>, <<"2", "\r">>,
     <<"2", "1", "4", "7", "4", "8", "3", "6", "4", "7">>,
     <<"-", "2", "1", "4", "7", "4", "8", "3", "6", "4", "8">>,
     <<"2", "1", "4", "7", "4", "8", "3", "6", "4", "8">>,
     <<"a", "b", "c">>, <<"1", ".", "5">>, <<"-">>}

Lines == {<<>>} \cup {t \o <<"\n">> : t \in LineTexts}

\* the branch each line takes and the number it parses to
LineTable ==
    [raw \in Lines |-> [br |-> stdin_branch(trim(raw)), v |-> parse_i32(trim(raw)).v]]

\* how many lines the user types
MaxLines == 2

NoEcho == [msg |-> "", v |-> 0]
Echo(m) == [msg |-> m, v |-> 0]

\* the four feature flags as they are now
FlagValues ==
    [debug |-> DEBUG_ENABLED, osc |-> OSC_SENDING_ENABLED, orig |-> OSC_SEND_ORIGINAL,
     mqtt |-> MQTT_ENABLED]

\* what read_line leaves when the bytes of the line are not valid UTF-8
InvalidLine == <<"\\xFF">>

\* one iteration of the handler loop on the line `raw`: everything up to the
\* first atomic store after which another store follows (exit), or up to the
\* `continue`
StdinHandleLine(raw) ==
    LET br == LineTable[raw].br
        number == LineTable[raw].v
        read == [stdin EXCEPT !.lines = @ + 1, !.line = raw, !.before = FlagValues]
    IN
    CASE br = "exit" ->
            /\ EXIT_FLAG' = TRUE
            /\ stdin' = [read EXCEPT !.pc = "exit_mqtt", !.echo = NoEcho]
            /\ UNCHANGED <<TRANSPOSE_SEMITONES, flags, lastSet, mqtt>>
      [] br = "debug_on" ->
            /\ DEBUG_ENABLED' = TRUE
            /\ stdin' = [read EXCEPT !.echo = Echo("Debug enabled")]
            /\ UNCHANGED <<TRANSPOSE_SEMITONES, EXIT_FLAG, OSC_SENDING_ENABLED,
                           OSC_SEND_ORIGINAL, MQTT_ENABLED, lastSet, mqtt>>
      [] br = "debug_off" ->
            /\ DEBUG_ENABLED' = FALSE
            /\ stdin' = [read EXCEPT !.echo = Echo("Debug disabled")]
            /\ UNCHANGED <<TRANSPOSE_SEMITONES, EXIT_FLAG, OSC_SENDING_ENABLED,
                           OSC_SEND_ORIGINAL, MQTT_ENABLED, lastSet, mqtt>>
      [] br = "osc_on" ->
            /\ OSC_SENDING_ENABLED' = TRUE
            /\ stdin' = [read EXCEPT !.echo = Echo("OSC sending enabled")]
            /\ UNCHANGED <<TRANSPOSE_SEMITONES, EXIT_FLAG, DEBUG_ENABLED,
                           OSC_SEND_ORIGINAL, MQTT_ENABLED, lastSet, mqtt>>
      [] br = "osc_off" ->
            /\ OSC_SENDING_ENABLED' = FALSE
            /\ stdin' = [read EXCEPT !.echo = Echo("OSC sending disabled")]
            /\ UNCHANGED <<TRANSPOSE_SEMITONES, EXIT_FLAG, DEBUG_ENABLED,
                           OSC_SEND_ORIGINAL, MQTT_ENABLED, lastSet, mqtt>>
      [] br = "orig_on" ->
            /\ OSC_SEND_ORIGINAL' = TRUE
            /\ stdin' = [read EXCEPT !.echo = Echo("OSC sending original input MIDI")]
            /\ UNCHANGED <<TRANSPOSE_SEMITONES, EXIT_FLAG, DEBUG_ENABLED,
                           OSC_SENDING_ENABLED, MQTT_ENABLED, lastSet, mqtt>>
      [] br = "orig_off" ->
            /\ OSC_SEND_ORIGINAL' = FALSE
            /\ stdin' = [read EXCEPT !.echo = Echo("OSC sending transposed MIDI")]
            /\ UNCHANGED <<TRANSPOSE_SEMITONES, EXIT_FLAG, DEBUG_ENABLED,
                           OSC_SENDING_ENABLED, MQTT_ENABLED, lastSet, mqtt>>
      [] br = "help" ->
            /\ stdin' = [read EXCEPT !.echo = Echo("Commands:")]
            /\ UNCHANGED <<shared, lastSet, mqtt>>
      [] br = "mqtt_on" ->
            /\ MQTT_ENABLED' = TRUE
            /\ IF ~stdin.mqtt_handle
               THEN mqtt' = [mqtt EXCEPT !["stdin"] = MqttSpawned]
               ELSE mqtt' = mqtt
            /\ stdin' = [read EXCEPT !.mqtt_handle = TRUE, !.echo = Echo("MQTT enabled")]
            /\ UNCHANGED <<TRANSPOSE_SEMITONES, EXIT_FLAG, DEBUG_ENABLED,
                           OSC_SENDING_ENABLED, OSC_SEND_ORIGINAL, lastSet>>
      [] br = "mqtt_off" ->
            /\ MQTT_ENABLED' = FALSE
            /\ stdin' = [read EXCEPT !.echo = Echo("MQTT disabled (listener will stop on next reconnect/exit)")]
            /\ UNCHANGED <<TRANSPOSE_SEMITONES, EXIT_FLAG, DEBUG_ENABLED,
                           OSC_SENDING_ENABLED, OSC_SEND_ORIGINAL, lastSet, mqtt>>
      [] br = "number" ->
            /\ SetTranspose("stdin", number)
            /\ stdin' = [read EXCEPT !.echo = [msg |-> "Transpose set to",
                                               v |-> set_transpose_semitones(number)]]
            /\ UNCHANGED <<EXIT_FLAG, flags, mqtt>>
      [] OTHER ->
            /\ stdin' = [read EXCEPT !.echo = Echo("Unrecognized command")]
            /\ UNCHANGED <<shared, lastSet, mqtt>>

\* read_line returns a line (or end of input) and the loop body runs
StdinReadLine ==
    /\ stdin.pc = "read"
    /\ stdin.lines < env.max_lines
    /\ \E raw \in env.lines : StdinHandleLine(raw)
    /\ UNCHANGED <<cfg, MQTT_CONNECTED, osc, published, brokerEvents, env, probe, pipeline>>

\* read_line fails (the input is not valid UTF-8, the handle is closed): break
StdinReadError ==
    /\ stdin.pc = "read"
    /\ stdin.lines < env.max_lines
    /\ stdin' = [stdin EXCEPT !.pc = "ended", !.lines = @ + 1, !.line = InvalidLine,
                               !.echo = NoEcho, !.before = FlagValues]
    /\ UNCHANGED <<cfg, shared, MQTT_CONNECTED, lastSet, osc, mqtt, published, brokerEvents, env, probe, pipeline>>

\* an exit branch whose second store hits the wrong atomic
StdinExitStoreMqtt_wrong_flag ==
    /\ stdin.pc = "exit_mqtt"
    /\ EXIT_FLAG' = FALSE
    /\ stdin' = [stdin EXCEPT !.pc = "ended"]
    /\ UNCHANGED <<cfg, TRANSPOSE_SEMITONES, flags, MQTT_CONNECTED, lastSet, osc, mqtt,
                   published, brokerEvents, env, probe, pipeline>>

\* the second store of the exit branches, then break
StdinExitStoreMqtt ==
    /\ stdin.pc = "exit_mqtt"
    /\ MQTT_ENABLED' = FALSE
    /\ stdin' = [stdin EXCEPT !.pc = "ended"]
    /\ UNCHANGED <<cfg, TRANSPOSE_SEMITONES, EXIT_FLAG, DEBUG_ENABLED, OSC_SENDING_ENABLED,
                   OSC_SEND_ORIGINAL, MQTT_CONNECTED, lastSet, osc, mqtt, published, brokerEvents, env, probe, pipeline>>

\* `before` remembers the flags as they were when the last line was read
StdinInit ==
    [pc |-> "read", lines |-> 0, line |-> <<>>, echo |-> NoEcho, mqtt_handle |-> FALSE,
     before |-> [debug |-> FALSE, osc |-> FALSE, orig |-> FALSE, mqtt |-> FALSE]]

(***************************************************************************)
(* remote/osc_listener.rs                                                  *)
(*                                                                         *)
(* An OSC argument is [ty, v, hi, f]: Int(v); Long(hi * 2^32 + v) with v   *)
(* in the i32 range, so that it fits an i32 iff hi = 0; Float(f) and       *)
(* Double(f) with f a float; Bool(v = 1); String.  A float is a finite     *)
(* number of tenths, a finite value beyond the i32 range ("big", "nbig"),  *)
(* an infinity or NaN.                                                     *)
(***************************************************************************)
Fin(tenths) == [k |-> "fin", tenths |-> tenths]
Special(k) == [k |-> k, tenths |-> 0]

OscInt(v) == [ty |-> "Int", v |-> v, hi |-> 0, f |-> Fin(0)]
OscLong(hi, lo) == [ty |-> "Long", v |-> lo, hi |-> hi, f |-> Fin(0)]
OscFloat(f) == [ty |-> "Float", v |-> 0, hi |-> 0, f |-> f]
OscDouble(f) == [ty |-> "Double", v |-> 0, hi |-> 0, f |-> f]
OscBool(b) == [ty |-> "Bool", v |-> IF b THEN 1 ELSE 0, hi |-> 0, f |-> Fin(0)]
OscString == [ty |-> "String", v |-> 0, hi |-> 0, f |-> Fin(0)]

\* f32::round / f64::round: to the nearest integer, halves away from zero
round_tenths(t) == IF t >= 0 THEN (t + 5) \div 10 ELSE -((5 - t) \div 10)

\* `v.round() as i32`: the cast saturates and maps NaN to 0
round_as_i32(f) ==
    CASE f.k = "fin" -> round_tenths(f.tenths)
      [] f.k \in {"big", "inf"} -> MaxI32
      [] f.k \in {"nbig", "ninf"} -> MinI32
      [] OTHER -> 0

NoValue == [some |-> FALSE, v |-> 0]
Some(v) == [some |-> TRUE, v |-> v]

\* a match that takes the low 32 bits of every Long (`v as i32`)
val_opt_long_truncated(arg) ==
    CASE arg.ty \in {"Int", "Long"} -> Some(arg.v)
      [] arg.ty \in {"Float", "Double"} -> Some(round_as_i32(arg.f))
      [] OTHER -> NoValue

\* handle_message, /transpose: the match that yields val_opt
val_opt(arg) ==
    CASE arg.ty = "Int" -> Some(arg.v)
      [] arg.ty = "Long" -> IF arg.hi = 0 THEN Some(arg.v) ELSE NoValue
      [] arg.ty \in {"Float", "Double"} -> Some(round_as_i32(arg.f))
      [] OTHER -> NoValue

\* a match that steps on every non-zero number
should_step_any_number(arg) ==
    CASE arg.ty \in {"Int", "Long"} -> arg.v # 0
      [] arg.ty \in {"Float", "Double"} -> arg.f.k = "fin" /\ arg.f.tenths # 0
      [] arg.ty = "Bool" -> arg.v = 1
      [] OTHER -> FALSE

\* handle_message, /transposeUp and /transposeDown: should_increment and
\* should_decrement (the same match); (v - 1.0).abs() < EPSILON holds of 1.0
\* alone among the floats modelled
should_step(arg) ==
    CASE arg.ty = "Int" -> arg.v = 1
      [] arg.ty = "Long" -> arg.hi = 0 /\ arg.v = 1
      [] arg.ty \in {"Float", "Double"} -> arg.f.k = "fin" /\ arg.f.tenths = 10
      [] arg.ty = "Bool" -> arg.v = 1
      [] OTHER -> FALSE

\* OscConfig: the three paths (defaults)
transpose_path == "/transpose"
transpose_up_path == "/transposeUp"
transpose_down_path == "/transposeDown"

OscMsg(addr, args) == [kind |-> "msg", addr |-> addr, args |-> args, content |-> <<>>]
OscBundle(content) == [kind |-> "bundle", addr |-> "", args |-> <<>>, content |-> content]
\* a datagram decode_udp rejects
Undecodable == [kind |-> "undecodable", addr |-> "", args |-> <<>>, content |-> <<>>]

SetArgs ==
    {<<OscInt(3)>>, <<OscInt(-30)>>, <<OscInt(70)>>, <<OscInt(0)>>, <<OscInt(2), OscInt(9)>>,
     <<OscLong(0, 5)>>, <<OscLong(1, 0)>>, <<OscLong(-1, 5)>>,
     <<OscFloat(Fin(25))>>, <<OscFloat(Fin(-25))>>, <<OscFloat(Fin(24))>>,
     <<OscFloat(Fin(-14))>>, <<OscDouble(Fin(15))>>, <<OscFloat(Special("nan"))>>,
     <<OscFloat(Special("inf"))>>, <<OscDouble(Special("nbig"))>>,
     <<OscBool(TRUE)>>, <<OscString>>, <<>>}

StepArgs ==
    {<<OscInt(1)>>, <<OscInt(0)>>, <<OscInt(2)>>, <<OscLong(0, 1)>>, <<OscLong(1, 1)>>,
     <<OscFloat(Fin(10))>>, <<OscFloat(Fin(9))>>, <<OscDouble(Fin(10))>>,
     <<OscFloat(Special("nan"))>>, <<OscBool(TRUE)>>, <<OscBool(FALSE)>>,
     <<OscString>>, <<>>, <<OscInt(1), OscInt(0)>>}

Up1 == OscMsg(transpose_up_path, <<OscFloat(Fin(10))>>)
Down1 == OscMsg(transpose_down_path, <<OscFloat(Fin(10))>>)

\* the datagrams the network may deliver
Datagrams ==
    {OscMsg(transpose_path, a) : a \in SetArgs}
    \cup {OscMsg(transpose_up_path, a) : a \in StepArgs}
    \cup {OscMsg(transpose_down_path, a) : a \in StepArgs}
    \cup {OscMsg("/other", <<OscInt(1)>>), Undecodable,
          OscBundle(<<>>), OscBundle(<<Up1, Up1>>),
          OscBundle(<<OscMsg(transpose_path, <<OscInt(2)>>),
                      OscBundle(<<Down1, OscMsg("/other", <<>>), Up1>>), Down1>>)}

\* examples/test_transpose_control.rs: the six messages it sends, in order
TestScript ==
    <<OscMsg(transpose_path, <<OscFloat(Fin(30))>>), Up1, Up1, Down1,
      OscMsg(transpose_path, <<OscFloat(Fin(0))>>), Down1>>

\* how many datagrams arrive when the network is free to deliver any
MaxPackets == 2

OscInit(feed) ==
    [pc |-> "bind", feed |-> feed, recvd |-> 0, stack |-> <<>>,
     msg |-> Undecodable, current |-> 0, handled |-> 0]

\* UdpSocket::bind succeeds
OscBind ==
    /\ osc.pc = "bind"
    /\ osc' = [osc EXCEPT !.pc = "loop"]
    /\ UNCHANGED <<cfg, shared, MQTT_CONNECTED, lastSet, stdin, mqtt, published, brokerEvents, env, probe, pipeline>>

\* a bind failure that takes the program down
OscBindFails_exits ==
    /\ osc.pc = "bind"
    /\ osc' = [osc EXCEPT !.pc = "ended"]
    /\ EXIT_FLAG' = TRUE
    /\ UNCHANGED <<cfg, TRANSPOSE_SEMITONES, flags, MQTT_CONNECTED, lastSet, stdin, mqtt, published, brokerEvents, env, probe, pipeline>>

\* UdpSocket::bind fails: the thread returns
OscBindFails ==
    /\ osc.pc = "bind"
    /\ osc' = [osc EXCEPT !.pc = "ended"]
    /\ UNCHANGED <<cfg, shared, MQTT_CONNECTED, lastSet, stdin, mqtt, published, brokerEvents, env, probe, pipeline>>

\* the datagrams recv_from can return now
OscIncoming ==
    IF osc.feed = "script"
    THEN IF osc.recvd < Len(TestScript) THEN {TestScript[osc.recvd + 1]} ELSE {}
    ELSE IF osc.recvd < env.max_packets THEN env.datagrams ELSE {}

\* the top of the loop sees EXIT_FLAG set: break
OscExit ==
    /\ osc.pc = "loop"
    /\ EXIT_FLAG
    /\ osc' = [osc EXCEPT !.pc = "ended"]
    /\ UNCHANGED <<cfg, shared, MQTT_CONNECTED, lastSet, stdin, mqtt, published, brokerEvents, env, probe, pipeline>>

\* the top of the loop sees EXIT_FLAG clear: the thread calls recv_from, which
\* waits for a datagram for at most 200 ms
OscWait ==
    /\ osc.pc = "loop"
    /\ ~EXIT_FLAG
    /\ osc' = [osc EXCEPT !.pc = "recv"]
    /\ UNCHANGED <<cfg, shared, MQTT_CONNECTED, lastSet, stdin, mqtt, published, brokerEvents, env, probe, pipeline>>

\* recv_from times out, or fails: back to the top of the loop
OscTimeout ==
    /\ osc.pc = "recv"
    /\ osc' = [osc EXCEPT !.pc = "loop"]
    /\ UNCHANGED <<cfg, shared, MQTT_CONNECTED, lastSet, stdin, mqtt, published, brokerEvents, env, probe, pipeline>>

\* a listener that ends on a datagram it cannot decode
OscRecv_fatal ==
    /\ osc.pc = "recv"
    /\ \E d \in OscIncoming :
          osc' = [osc EXCEPT !.recvd = @ + 1,
                             !.pc = IF d.kind = "undecodable" THEN "ended" ELSE "handle",
                             !.stack = IF d.kind = "undecodable" THEN <<>> ELSE <<d>>]
    /\ UNCHANGED <<cfg, shared, MQTT_CONNECTED, lastSet, stdin, mqtt, published, brokerEvents, env, probe, pipeline>>

\* recv_from returns a datagram: decode it, and handle_packet starts on it (a
\* decode error is logged)
OscRecv ==
    /\ osc.pc = "recv"
    /\ \E d \in OscIncoming :
          osc' = [osc EXCEPT !.recvd = @ + 1,
                             !.pc = IF d.kind = "undecodable" THEN "loop" ELSE "handle",
                             !.stack = IF d.kind = "undecodable" THEN <<>> ELSE <<d>>]
    /\ UNCHANGED <<cfg, shared, MQTT_CONNECTED, lastSet, stdin, mqtt, published, brokerEvents, env, probe, pipeline>>

\* a handler that skips the bundles inside a bundle
OscHandleBundle_shallow ==
    /\ osc.pc = "handle" /\ osc.stack # <<>>
    /\ Head(osc.stack).kind = "bundle"
    /\ LET IsMsg(p) == p.kind = "msg"
       IN osc' = [osc EXCEPT !.stack = SelectSeq(Head(osc.stack).content, IsMsg)
                                        \o Tail(osc.stack)]
    /\ UNCHANGED <<cfg, shared, MQTT_CONNECTED, lastSet, stdin, mqtt, published, brokerEvents, env, probe, pipeline>>

\* handle_packet on a bundle: its content is handled in order, depth first
OscHandleBundle ==
    /\ osc.pc = "handle" /\ osc.stack # <<>>
    /\ Head(osc.stack).kind = "bundle"
    /\ osc' = [osc EXCEPT !.stack = Head(osc.stack).content \o Tail(osc.stack)]
    /\ UNCHANGED <<cfg, shared, MQTT_CONNECTED, lastSet, stdin, mqtt, published, brokerEvents, env, probe, pipeline>>

\* handle_message up to its first access to TRANSPOSE_SEMITONES
OscHandleMessage ==
    /\ osc.pc = "handle" /\ osc.stack # <<>>
    /\ Head(osc.stack).kind = "msg"
    /\ LET m == Head(osc.stack)
           next == [osc EXCEPT !.stack = Tail(osc.stack), !.msg = m, !.handled = @ + 1]
       IN
       IF m.addr = transpose_path
       THEN IF Len(m.args) > 0 /\ val_opt(m.args[1]).some
            THEN /\ SetTranspose("osc", val_opt(m.args[1]).v)
                 /\ osc' = next
            ELSE /\ osc' = next
                 /\ UNCHANGED <<TRANSPOSE_SEMITONES, lastSet>>
       ELSE IF m.addr = transpose_up_path
       THEN /\ IF Len(m.args) > 0 /\ should_step(m.args[1])
               THEN osc' = [next EXCEPT !.pc = "up", !.current = TRANSPOSE_SEMITONES]
               ELSE osc' = next
            /\ UNCHANGED <<TRANSPOSE_SEMITONES, lastSet>>
       ELSE IF m.addr = transpose_down_path
       THEN /\ IF Len(m.args) > 0 /\ should_step(m.args[1])
               THEN osc' = [next EXCEPT !.pc = "down", !.current = TRANSPOSE_SEMITONES]
               ELSE osc' = next
            /\ UNCHANGED <<TRANSPOSE_SEMITONES, lastSet>>
       ELSE /\ osc' = next
            /\ UNCHANGED <<TRANSPOSE_SEMITONES, lastSet>>
    /\ UNCHANGED <<cfg, EXIT_FLAG, flags, MQTT_CONNECTED, stdin, mqtt, published, brokerEvents, env, probe, pipeline>>

\* set_transpose_semitones(current + 1) and set_transpose_semitones(current - 1)
OscStep ==
    /\ osc.pc \in {"up", "down"}
    /\ SetTranspose("osc", IF osc.pc = "up" THEN osc.current + 1 ELSE osc.current - 1)
    /\ osc' = [osc EXCEPT !.pc = "handle"]
    /\ UNCHANGED <<cfg, EXIT_FLAG, flags, MQTT_CONNECTED, stdin, mqtt, published, brokerEvents, env, probe, pipeline>>

\* handle_packet has returned
OscHandled ==
    /\ osc.pc = "handle" /\ osc.stack = <<>>
    /\ osc' = [osc EXCEPT !.pc = "loop"]
    /\ UNCHANGED <<cfg, shared, MQTT_CONNECTED, lastSet, stdin, mqtt, published, brokerEvents, env, probe, pipeline>>

(***************************************************************************)
(* remote/mqtt_listener.rs                                                 *)
(*                                                                         *)
(* A payload is [valid, text]: the bytes are valid UTF-8 or not, and the   *)
(* text they decode to.                                                    *)
(***************************************************************************)
Payload(text) == [valid |-> TRUE, text |-> text]
InvalidUtf8 == [valid |-> FALSE, text |-> <<>>]

S_inf == <<"i", "n", "f">>
S_infinity == <<"i", "n", "f", "i", "n", "i", "t", "y">>
S_nan == <<"n", "a", "n">>
S_true == <<"t", "r", "u", "e">>
S_on == <<"o", "n">>

ParseErrF == [ok |-> FALSE, f |-> Fin(0)]

\* the digits of a decimal numeral: the value in tenths after the first
\* fractional digit, or "big" once the tenths leave the i32 range
RECURSIVE ParseDecimal(_, _, _, _, _)
ParseDecimal(s, i, tenths, frac, seen) ==
    IF i > Len(s) THEN (IF seen THEN [ok |-> TRUE, f |-> tenths] ELSE ParseErrF)
    ELSE IF s[i] = "."
         THEN IF frac > 0 THEN ParseErrF ELSE ParseDecimal(s, i + 1, tenths, 1, seen)
    ELSE IF ~IsDigit(s[i]) THEN ParseErrF
    ELSE IF frac = 0
         THEN IF tenths.k = "big" \/ tenths.tenths > (MaxI32 \div 100) - 1
              THEN ParseDecimal(s, i + 1, Special("big"), frac, TRUE)
              ELSE ParseDecimal(s, i + 1, Fin(tenths.tenths * 10 + DigitVal(s[i]) * 10), frac, TRUE)
    ELSE IF frac = 1
         THEN ParseDecimal(s, i + 1,
                           IF tenths.k = "big" THEN tenths
                           ELSE Fin(tenths.tenths + DigitVal(s[i])), 2, TRUE)
    ELSE ParseDecimal(s, i + 1, tenths, 2, TRUE)

Negate(f) ==
    CASE f.k = "fin" -> Fin(-f.tenths)
      [] f.k = "big" -> Special("nbig")
      [] f.k = "inf" -> Special("ninf")
      [] OTHER -> f

\* str::parse::<f32> on numerals without an exponent: sign, "inf", "infinity",
\* "nan" in any case, or decimal digits with at most one point
parse_f32(s) ==
    LET neg == Len(s) > 0 /\ s[1] = "-"
        body == IF Len(s) > 0 /\ s[1] \in {"+", "-"} THEN SubSeq(s, 2, Len(s)) ELSE s
        r == IF eq_ignore_ascii_case(body, S_inf) \/ eq_ignore_ascii_case(body, S_infinity)
             THEN [ok |-> TRUE, f |-> Special("inf")]
             ELSE IF eq_ignore_ascii_case(body, S_nan)
             THEN [ok |-> TRUE, f |-> Special("nan")]
             ELSE ParseDecimal(body, 1, Fin(0), 0, FALSE)
    IN IF r.ok /\ neg THEN [ok |-> TRUE, f |-> Negate(r.f)] ELSE r

\* a parser that cuts the fraction of a decimal off
parse_transpose_payload_truncating(payload) ==
    IF ~payload.valid THEN NoValue
    ELSE LET t == trim(payload.text) IN
         IF parse_i32(t).ok THEN Some(parse_i32(t).v)
         ELSE IF parse_f32(t).ok
         THEN Some(IF parse_f32(t).f.k # "fin" THEN round_as_i32(parse_f32(t).f)
                   ELSE IF parse_f32(t).f.tenths >= 0 THEN parse_f32(t).f.tenths \div 10
                   ELSE -((-parse_f32(t).f.tenths) \div 10))
         ELSE NoValue

\* parse_transpose_payload
parse_transpose_payload(payload) ==
    IF ~payload.valid THEN NoValue
    ELSE LET t == trim(payload.text) IN
         IF parse_i32(t).ok THEN Some(parse_i32(t).v)
         ELSE IF parse_f32(t).ok THEN Some(round_as_i32(parse_f32(t).f))
         ELSE NoValue

\* parse_boolean_payload
parse_boolean_payload(payload) ==
    LET t == to_ascii_lowercase(trim(IF payload.valid THEN payload.text ELSE <<>>)) IN
    t = <<"1">> \/ t = S_true \/ t = S_on

\* MqttTopics::new with the default base topic
T_transpose_set == "midi_transposer/transpose"
T_transpose_up == "midi_transposer/transposeUp"
T_transpose_down == "midi_transposer/transposeDown"
T_transpose_state == "midi_transposer/state/transpose"
T_osc_sending_enabled_set == "midi_transposer/osc/sendingEnabled"
T_osc_sending_enabled_state == "midi_transposer/state/osc/sendingEnabled"
T_osc_send_original_set == "midi_transposer/osc/sendOriginal"
T_osc_send_original_state == "midi_transposer/state/osc/sendOriginal"
T_debug_enabled_set == "midi_transposer/debug/enabled"
T_debug_enabled_state == "midi_transposer/state/debug/enabled"

StateTopics ==
    {T_transpose_state, T_osc_sending_enabled_state, T_osc_send_original_state,
     T_debug_enabled_state}

CommandTopics ==
    {T_transpose_set, T_transpose_up, T_transpose_down, T_osc_sending_enabled_set,
     T_osc_send_original_set, T_debug_enabled_set, "homeassistant/status"}

BrokerPayloads ==
    {Payload(<<"5">>), Payload(<<"-", "3", "0">>), Payload(<<"7", "0">>),
     Payload(<<"2", ".", "5">>), Payload(<<"-", "2", ".", "5">>), Payload(<<"1", ".", "4", "9">>),
     Payload(<<" ", "3", "\n">>), Payload(<<"a", "b", "c">>), Payload(<<>>),
     Payload(<<"1">>), Payload(<<"0">>), Payload(S_true), Payload(<<"O", "N">>),
     Payload(<<"o", "f", "f">>), Payload(S_inf),
     Payload(<<"9", "9", "9", "9", "9", "9", "9", "9", "9", "9", "9">>), InvalidUtf8}

BoolText(b) == IF b THEN <<"1">> ELSE <<"0">>

\* the publishes the broker may deliver: <<topic, payload>>
Publishes == CommandTopics \X BrokerPayloads

\* what the two payload parsers make of each payload
PayloadTable ==
    [pl \in BrokerPayloads |->
        [val |-> parse_transpose_payload(pl), bool |-> parse_boolean_payload(pl)]]

\* the events of connection.iter() that are counted against the budget
MaxBrokerEvents == 2

\* run_mqtt_message_loop before the loop: the snapshot is taken
MqttStart(t) ==
    /\ mqtt[t].pc = "start"
    /\ mqtt' = [mqtt EXCEPT ![t] = [@ EXCEPT !.pc = "next",
                    !.last_state_sent = TRANSPOSE_SEMITONES,
                    !.last_osc_enabled = OSC_SENDING_ENABLED,
                    !.last_send_original = OSC_SEND_ORIGINAL,
                    !.last_debug_enabled = DEBUG_ENABLED]]
    /\ UNCHANGED <<cfg, shared, MQTT_CONNECTED, lastSet, stdin, osc, published, brokerEvents, env, probe, pipeline>>

\* the top of the loop sees EXIT_FLAG set: disconnect and break
MqttExit(t) ==
    /\ mqtt[t].pc = "next"
    /\ EXIT_FLAG
    /\ mqtt' = [mqtt EXCEPT ![t] = [@ EXCEPT !.pc = "ended", !.disconnect = TRUE]]
    /\ UNCHANGED <<cfg, shared, MQTT_CONNECTED, lastSet, stdin, osc, published, brokerEvents, env, probe, pipeline>>

\* the top of the loop sees EXIT_FLAG clear: the thread calls iter.next(), which
\* blocks until the connection has an event.  The iterator is over only when
\* the request channel is closed, which needs every Client handle dropped; the
\* loop borrows the Client for as long as it runs, so iter.next() is Some(..)
MqttPoll(t) ==
    /\ mqtt[t].pc = "next"
    /\ ~EXIT_FLAG
    /\ mqtt' = [mqtt EXCEPT ![t].pc = "poll"]
    /\ UNCHANGED <<cfg, shared, MQTT_CONNECTED, lastSet, stdin, osc, published, brokerEvents, env, probe, pipeline>>

Publish(topic, text) == published' = [published EXCEPT ![topic] = text]

\* iter.next() yields a publish on `topic`: handle_mqtt_message up to its
\* first access to TRANSPOSE_SEMITONES, or to its end
MqttOnPublish(t, topic, payload) ==
    LET counted == [mqtt[t] EXCEPT !.pc = "sync"] IN
    IF topic = T_transpose_set
    THEN IF PayloadTable[payload].val.some
         THEN /\ SetTranspose("mqtt", PayloadTable[payload].val.v)
              /\ Publish(T_transpose_state,
                         to_string(set_transpose_semitones(PayloadTable[payload].val.v)))
              /\ mqtt' = [mqtt EXCEPT ![t] = [counted EXCEPT !.last_state_sent =
                             set_transpose_semitones(PayloadTable[payload].val.v)]]
              /\ UNCHANGED <<EXIT_FLAG, flags>>
         ELSE /\ mqtt' = [mqtt EXCEPT ![t] = counted]
              /\ UNCHANGED <<shared, lastSet, published>>
    ELSE IF topic \in {T_transpose_up, T_transpose_down}
    THEN /\ IF PayloadTable[payload].bool
            THEN mqtt' = [mqtt EXCEPT ![t] = [counted EXCEPT
                             !.pc = IF topic = T_transpose_up THEN "up" ELSE "down",
                             !.current = TRANSPOSE_SEMITONES]]
            ELSE mqtt' = [mqtt EXCEPT ![t] = counted]
         /\ UNCHANGED <<shared, lastSet, published>>
    ELSE IF topic = T_osc_sending_enabled_set
    THEN /\ OSC_SENDING_ENABLED' = PayloadTable[payload].bool
         /\ Publish(T_osc_sending_enabled_state, BoolText(PayloadTable[payload].bool))
         /\ mqtt' = [mqtt EXCEPT ![t] = counted]
         /\ UNCHANGED <<TRANSPOSE_SEMITONES, EXIT_FLAG, DEBUG_ENABLED, OSC_SEND_ORIGINAL,
                        MQTT_ENABLED, lastSet>>
    ELSE IF topic = T_osc_send_original_set
    THEN /\ OSC_SEND_ORIGINAL' = PayloadTable[payload].bool
         /\ Publish(T_osc_send_original_state, BoolText(PayloadTable[payload].bool))
         /\ mqtt' = [mqtt EXCEPT ![t] = counted]
         /\ UNCHANGED <<TRANSPOSE_SEMITONES, EXIT_FLAG, DEBUG_ENABLED, OSC_SENDING_ENABLED,
                        MQTT_ENABLED, lastSet>>
    ELSE IF topic = T_debug_enabled_set
    THEN /\ DEBUG_ENABLED' = PayloadTable[payload].bool
         /\ Publish(T_debug_enabled_state, BoolText(PayloadTable[payload].bool))
         /\ mqtt' = [mqtt EXCEPT ![t] = counted]
         /\ UNCHANGED <<TRANSPOSE_SEMITONES, EXIT_FLAG, OSC_SENDING_ENABLED, OSC_SEND_ORIGINAL,
                        MQTT_ENABLED, lastSet>>
    ELSE /\ mqtt' = [mqtt EXCEPT ![t] = counted]
         /\ UNCHANGED <<shared, lastSet, published>>

\* iter.next() yields Incoming::Publish
MqttRecvPublish(t) ==
    /\ mqtt[t].pc = "poll"
    /\ mqtt[t].session
    /\ brokerEvents < env.max_events
    /\ brokerEvents' = brokerEvents + 1
    /\ \E m \in env.publishes : MqttOnPublish(t, m[1], m[2])
    /\ UNCHANGED <<cfg, MQTT_CONNECTED, stdin, osc, env, probe, pipeline>>

\* the second half of the transposeUp/transposeDown branches
MqttStep(t) ==
    /\ mqtt[t].pc \in {"up", "down"}
    /\ LET v == IF mqtt[t].pc = "up" THEN mqtt[t].current + 1 ELSE mqtt[t].current - 1 IN
       /\ SetTranspose("mqtt", v)
       /\ Publish(T_transpose_state, to_string(set_transpose_semitones(v)))
       /\ mqtt' = [mqtt EXCEPT ![t] = [@ EXCEPT !.pc = "sync",
                                          !.last_state_sent = set_transpose_semitones(v)]]
    /\ UNCHANGED <<cfg, EXIT_FLAG, flags, MQTT_CONNECTED, stdin, osc, brokerEvents, env, probe, pipeline>>

\* iter.next() yields Incoming::ConnAck, the first event of a session: mark
\* connected, subscribe, publish the current state
MqttRecvConnAck(t) ==
    /\ mqtt[t].pc = "poll"
    /\ ~mqtt[t].session
    /\ MQTT_CONNECTED' = TRUE
    /\ published' = [published EXCEPT
                        ![T_transpose_state] = to_string(TRANSPOSE_SEMITONES),
                        ![T_osc_sending_enabled_state] = BoolText(OSC_SENDING_ENABLED),
                        ![T_osc_send_original_state] = BoolText(OSC_SEND_ORIGINAL),
                        ![T_debug_enabled_state] = BoolText(DEBUG_ENABLED)]
    /\ mqtt' = [mqtt EXCEPT ![t] = [@ EXCEPT !.pc = "sync", !.session = TRUE]]
    /\ UNCHANGED <<cfg, shared, lastSet, stdin, osc, brokerEvents, env, probe, pipeline>>

\* a bridge that gives up on a transport error
MqttRecvError_fatal(t) ==
    /\ mqtt[t].pc = "poll"
    /\ brokerEvents < env.max_events
    /\ brokerEvents' = brokerEvents + 1
    /\ MQTT_CONNECTED' = FALSE
    /\ mqtt' = [mqtt EXCEPT ![t] = [@ EXCEPT !.pc = "ended", !.session = FALSE]]
    /\ UNCHANGED <<cfg, shared, lastSet, stdin, osc, published, env, probe, pipeline>>

\* iter.next() yields an error (the connection failed or broke): mark
\* disconnected, sleep RECONNECT_DELAY_SECS; the next session starts over
MqttRecvError(t) ==
    /\ mqtt[t].pc = "poll"
    /\ brokerEvents < env.max_events
    /\ brokerEvents' = brokerEvents + 1
    /\ MQTT_CONNECTED' = FALSE
    /\ mqtt' = [mqtt EXCEPT ![t] = [@ EXCEPT !.pc = "sync", !.session = FALSE]]
    /\ UNCHANGED <<cfg, shared, lastSet, stdin, osc, published, env, probe, pipeline>>

\* iter.next() yields any other event: an outgoing packet, or the ping that the
\* keep-alive of KEEP_ALIVE_SECS sends on an idle connection
MqttRecvOther(t) ==
    /\ mqtt[t].pc = "poll"
    /\ mqtt' = [mqtt EXCEPT ![t].pc = "sync"]
    /\ UNCHANGED <<cfg, shared, MQTT_CONNECTED, lastSet, stdin, osc, published, brokerEvents, env, probe, pipeline>>

\* the end of an iteration: republish what differs from the snapshot, sleep
MqttSync(t) ==
    /\ mqtt[t].pc = "sync"
    /\ published' = [published EXCEPT
            ![T_transpose_state] =
                IF TRANSPOSE_SEMITONES # mqtt[t].last_state_sent
                THEN to_string(TRANSPOSE_SEMITONES) ELSE @,
            ![T_osc_sending_enabled_state] =
                IF OSC_SENDING_ENABLED # mqtt[t].last_osc_enabled
                THEN BoolText(OSC_SENDING_ENABLED) ELSE @,
            ![T_osc_send_original_state] =
                IF OSC_SEND_ORIGINAL # mqtt[t].last_send_original
                THEN BoolText(OSC_SEND_ORIGINAL) ELSE @,
            ![T_debug_enabled_state] =
                IF DEBUG_ENABLED # mqtt[t].last_debug_enabled
                THEN BoolText(DEBUG_ENABLED) ELSE @]
    /\ mqtt' = [mqtt EXCEPT ![t] = [@ EXCEPT !.pc = "next",
                    !.last_state_sent = TRANSPOSE_SEMITONES,
                    !.last_osc_enabled = OSC_SENDING_ENABLED,
                    !.last_send_original = OSC_SEND_ORIGINAL,
                    !.last_debug_enabled = DEBUG_ENABLED]]
    /\ UNCHANGED <<cfg, shared, MQTT_CONNECTED, lastSet, stdin, osc, brokerEvents, env, probe, pipeline>>

(***************************************************************************)
(* remote/osc_sender.rs: the conversion of a MIDI message to OSC.  A note  *)
(* name and an address are sequences of characters; the address prefix is  *)
(* one element.  A float is a number of tenths.                            *)
(***************************************************************************)
NOTE_NAMES ==
    << <<"C">>, <<"C", "#">>, <<"D">>, <<"D", "#">>, <<"E">>, <<"F">>, <<"F", "#">>,
       <<"G">>, <<"G", "#">>, <<"A">>, <<"A", "#">>, <<"B">> >>

S_INVALID == <<"I", "N", "V", "A", "L", "I", "D">>
S_SHARP == <<"S", "H", "A", "R", "P">>

\* a note name whose octave is note / 12
midi_note_to_name_octave0(note_number) ==
    IF note_number > 127 THEN S_INVALID
    ELSE NOTE_NAMES[(note_number % 12) + 1] \o to_string(note_number \div 12)

\* midi_note_to_name: the name of the pitch class followed by the octave
midi_note_to_name(note_number) ==
    IF note_number > 127 THEN S_INVALID
    ELSE NOTE_NAMES[(note_number % 12) + 1] \o to_string((note_number \div 12) - 1)

\* a note name that goes into the address as it is
note_name_unescaped(note_name) == note_name

\* note_name_for_osc: note_name.replace('#', "SHARP")
RECURSIVE note_name_for_osc(_)
note_name_for_osc(note_name) ==
    IF note_name = <<>> THEN <<>>
    ELSE (IF Head(note_name) = "#" THEN S_SHARP ELSE <<Head(note_name)>>)
         \o note_name_for_osc(Tail(note_name))

\* raw_bytes.get(i).copied().unwrap_or(0)
get_or_0(raw_bytes, i) == IF i < Len(raw_bytes) THEN raw_bytes[i + 1] ELSE 0

\* MidiMessageForOsc::new: None for an empty message
MidiMessageForOsc_new(raw_bytes) ==
    IF raw_bytes = <<>> THEN NoValue
    ELSE Some([status |-> raw_bytes[1], data1 |-> get_or_0(raw_bytes, 1),
               data2 |-> get_or_0(raw_bytes, 2), data3 |-> get_or_0(raw_bytes, 3)])

\* HashMap::new and HashMap::insert
HashMap_new == [k \in {} |-> 0]
insert(map, key, value) ==
    [k \in DOMAIN map \cup {key} |-> IF k = key THEN value ELSE map[k]]

\* format!("/avatar/parameters/{}", osc_note_name)
avatar_parameter(name) == <<"/avatar/parameters/">> \o name
PitchUp == <<"P", "i", "t", "c", "h", "U", "p">>
PitchDown == <<"P", "i", "t", "c", "h", "D", "o", "w", "n">>

\* a bend whose tenths are cut off instead of rounded
pitch_bend_truncated(data1, data2) ==
    LET pitch_bend_raw == (data2 * 128 + data1) - 8192
        pitch_bend_value == ClampI32(pitch_bend_raw, -8192, 8192)
    IN IF pitch_bend_value >= 0 THEN (pitch_bend_value * 10) \div 8192
       ELSE -(((-pitch_bend_value) * 10) \div 8192)

\* pitch_bend_rounded, in tenths: raw / 8192.0 is exact in f32, max/min clamp it
\* to [-1, 1], the product with 10.0 is exact and f32::round takes it to the
\* nearest integer, halves away from zero
pitch_bend_rounded(data1, data2) ==
    LET pitch_bend_raw == (data2 * 128 + data1) - 8192
        pitch_bend_value == ClampI32(pitch_bend_raw, -8192, 8192)
    IN IF pitch_bend_value >= 0 THEN (pitch_bend_value * 20 + 8192) \div 16384
       ELSE -(((-pitch_bend_value) * 20 + 8192) \div 16384)

\* OscSender::process_midi_message: the key states it leaves and the messages
\* it hands to send_osc_message
process_midi_message(key_states, midi_msg) ==
    LET data1 == midi_msg.data1
        data2 == midi_msg.data2
        nibble == StatusNibble(midi_msg.status)
        note_name == midi_note_to_name(data1)
        osc_path == avatar_parameter(note_name_for_osc(note_name))
        note_state_int == IF data2 > 0 THEN 1 ELSE 0
        rounded == pitch_bend_rounded(data1, data2)
    IN IF data1 > 127
       THEN [key_states |-> key_states, sent |-> <<>>]
       ELSE CASE nibble = 144 ->
                   [key_states |-> insert(key_states, note_name, note_state_int),
                    sent |-> <<OscMsg(osc_path, <<OscInt(note_state_int)>>)>>]
              [] nibble = 128 ->
                   [key_states |-> insert(key_states, note_name, 0),
                    sent |-> <<OscMsg(osc_path, <<OscInt(0)>>)>>]
              [] nibble = 224 ->
                   [key_states |-> key_states,
                    sent |-> IF rounded > 0
                             THEN <<OscMsg(avatar_parameter(PitchUp),
                                           <<OscFloat(Fin(rounded))>>)>>
                             ELSE IF rounded < 0
                             THEN <<OscMsg(avatar_parameter(PitchDown),
                                           <<OscFloat(Fin(-rounded))>>)>>
                             ELSE <<>>]
              [] OTHER -> [key_states |-> key_states, sent |-> <<>>]

\* the Ok(raw_bytes) arm of the sender loop: the message is converted if it is
\* not empty
relay(key_states, raw_bytes) ==
    LET midi_msg == MidiMessageForOsc_new(raw_bytes)
    IN IF midi_msg.some THEN process_midi_message(key_states, midi_msg.v)
       ELSE [key_states |-> key_states, sent |-> <<>>]

(***************************************************************************)
(* main.rs: the input callback;  general/forwarder.rs;                     *)
(* remote/osc_sender.rs: spawn_osc_sender;  main.rs: the shutdown          *)
(***************************************************************************)
Streams == {"original", "transposed"}

\* the raw messages the MIDI driver may hand to the callback
NoteOn60 == <<144, 60, 100>>
MidiEvents == {<<>>, NoteOn60, <<176, 64, 127>>}

\* how many MIDI events arrive in a run
MaxEvents == 2

CallbackInit == [pc |-> "idle", message |-> <<>>, events |-> 0]

\* the forwarder thread: its position, the message in hand and, for each call
\* of conn_out.send so far, whether it returned Err
ForwarderInit == [pc |-> "recv", out_msg |-> <<>>, errs |-> <<>>]

\* the forwarder is back at the head of `for msg in rx`
ForwarderAtRecv == [forwarder EXCEPT !.pc = "recv", !.out_msg = <<>>]

\* a sender thread: its position, what it has dequeued, OscSender's key_states
\* and what it has handed to its socket
SenderInit == [pc |-> "start", got |-> <<>>, key_states |-> HashMap_new, sent |-> <<>>]

\* the pipeline at the end of startup; `live` are the streams whose sender
\* thread is there
PipelineInit(live) ==
    /\ conn_in = "open"
    /\ callback = CallbackInit
    /\ rx = <<>>
    /\ osc_rx = [r \in Streams |-> <<>>]
    /\ forwarder = ForwarderInit
    /\ conn_out = <<>>
    /\ senders = [r \in Streams |-> IF r \in live THEN SenderInit
                                    ELSE [SenderInit EXCEPT !.pc = "ended"]]
    /\ enqueued = [q \in {"forwarder"} \cup Streams |-> <<>>]
    /\ mainThread = "wait"

\* whether the receiving end of a channel still exists
ReceiverAlive(r) == senders[r].pc # "ended"

\* whether a sending end of a channel still exists: tx and osc_original_tx live
\* in the callback closure, osc_transposed_tx in the forwarder thread
SenderAlive(r) == IF r = "original" THEN conn_in = "open" ELSE forwarder.pc # "ended"

\* a send that puts the message at the head of the channel
OscSend_front(r, message) ==
    IF ReceiverAlive(r)
    THEN /\ osc_rx' = [osc_rx EXCEPT ![r] = <<message>> \o @]
         /\ enqueued' = [enqueued EXCEPT ![r] = Append(@, message)]
    ELSE UNCHANGED <<osc_rx, enqueued>>

\* Sender::send on an OSC channel: the message is queued, or the receiver is
\* gone and the error is discarded (`let _ =`)
OscSend(r, message) ==
    IF ReceiverAlive(r)
    THEN /\ osc_rx' = [osc_rx EXCEPT ![r] = Append(@, message)]
         /\ enqueued' = [enqueued EXCEPT ![r] = Append(@, message)]
    ELSE UNCHANGED <<osc_rx, enqueued>>

\* the driver calls the callback with a message: tx.send(message.to_vec())
CallbackSend ==
    /\ conn_in = "open"
    /\ callback.pc = "idle"
    /\ callback.events < env.max_midi
    /\ \E message \in env.midi :
        /\ callback' = [pc |-> "check_enabled", message |-> message,
                        events |-> callback.events + 1]
        /\ IF forwarder.pc # "ended"
           THEN /\ rx' = Append(rx, message)
                /\ enqueued' = [enqueued EXCEPT !["forwarder"] = Append(@, message)]
           ELSE UNCHANGED <<rx, enqueued>>
    /\ UNCHANGED <<cfg, shared, control, env, probe, conn_in, osc_rx, forwarder, conn_out,
                   senders, mainThread>>

\* a callback that goes on to OSC_SEND_ORIGINAL whatever OSC_SENDING_ENABLED is
CallbackCheckEnabled_skipped ==
    /\ callback.pc = "check_enabled"
    /\ callback' = [callback EXCEPT !.pc = "check_original"]
    /\ UNCHANGED <<cfg, shared, control, env, probe, conn_in, rx, osc_rx, forwarder,
                   conn_out, senders, enqueued, mainThread>>

\* the callback loads OSC_SENDING_ENABLED; false ends the callback (&& short-circuits)
CallbackCheckEnabled ==
    /\ callback.pc = "check_enabled"
    /\ callback' = IF OSC_SENDING_ENABLED
                   THEN [callback EXCEPT !.pc = "check_original"]
                   ELSE [callback EXCEPT !.pc = "idle", !.message = <<>>]
    /\ UNCHANGED <<cfg, shared, control, env, probe, conn_in, rx, osc_rx, forwarder,
                   conn_out, senders, enqueued, mainThread>>

\* the callback loads OSC_SEND_ORIGINAL; true: osc_original_tx.send(message.to_vec())
CallbackCheckOriginal ==
    /\ callback.pc = "check_original"
    /\ callback' = [callback EXCEPT !.pc = "idle", !.message = <<>>]
    /\ IF OSC_SEND_ORIGINAL
       THEN OscSend("original", callback.message)
       ELSE UNCHANGED <<osc_rx, enqueued>>
    /\ UNCHANGED <<cfg, shared, control, env, probe, conn_in, rx, forwarder, conn_out,
                   senders, mainThread>>

\* `for msg in rx` yields an empty message: continue
ForwarderSkip ==
    /\ forwarder.pc = "recv"
    /\ rx # <<>> /\ Head(rx) = <<>>
    /\ rx' = Tail(rx)
    /\ UNCHANGED <<cfg, shared, control, env, probe, conn_in, callback, osc_rx, forwarder,
                   conn_out, senders, enqueued, mainThread>>

\* a forwarder that leaves its loop when conn_out.send returns Err
ForwarderForward_breaks ==
    /\ forwarder.pc = "recv"
    /\ rx # <<>> /\ Head(rx) # <<>>
    /\ rx' = Tail(rx)
    /\ LET t == TRANSPOSE_SEMITONES
           out_msg == apply_transpose(Head(rx), t)
       IN /\ conn_out' = Append(conn_out, [msg |-> Head(rx), t |-> t, out |-> out_msg])
          /\ \E err \in BOOLEAN :
                forwarder' = [pc |-> IF err THEN "ended" ELSE "check_enabled",
                              out_msg |-> out_msg, errs |-> Append(forwarder.errs, err)]
    /\ UNCHANGED <<cfg, shared, control, env, probe, conn_in, callback, osc_rx, senders,
                   enqueued, mainThread>>

\* `for msg in rx` yields a message: load TRANSPOSE_SEMITONES, apply_transpose,
\* conn_out.send, which the output port accepts or fails (an error is printed
\* and the loop goes on)
ForwarderForward ==
    /\ forwarder.pc = "recv"
    /\ rx # <<>> /\ Head(rx) # <<>>
    /\ rx' = Tail(rx)
    /\ LET t == TRANSPOSE_SEMITONES
           out_msg == apply_transpose(Head(rx), t)
       IN /\ conn_out' = Append(conn_out, [msg |-> Head(rx), t |-> t, out |-> out_msg])
          /\ \E err \in BOOLEAN :
                forwarder' = [pc |-> "check_enabled", out_msg |-> out_msg,
                              errs |-> Append(forwarder.errs, err)]
    /\ UNCHANGED <<cfg, shared, control, env, probe, conn_in, callback, osc_rx, senders,
                   enqueued, mainThread>>

\* the forwarder loads OSC_SENDING_ENABLED; false: next message
ForwarderCheckEnabled ==
    /\ forwarder.pc = "check_enabled"
    /\ forwarder' = IF OSC_SENDING_ENABLED
                    THEN [forwarder EXCEPT !.pc = "check_original"]
                    ELSE ForwarderAtRecv
    /\ UNCHANGED <<cfg, shared, control, env, probe, conn_in, callback, rx, osc_rx,
                   conn_out, senders, enqueued, mainThread>>

\* the forwarder loads OSC_SEND_ORIGINAL; false: osc_tx.send(out_msg.clone())
ForwarderCheckOriginal ==
    /\ forwarder.pc = "check_original"
    /\ forwarder' = ForwarderAtRecv
    /\ IF ~OSC_SEND_ORIGINAL
       THEN OscSend("transposed", forwarder.out_msg)
       ELSE UNCHANGED <<osc_rx, enqueued>>
    /\ UNCHANGED <<cfg, shared, control, env, probe, conn_in, callback, rx, conn_out,
                   senders, mainThread>>

\* a forwarder that ends as soon as the channel is closed, whatever is in it
ForwarderEnds_undrained ==
    /\ forwarder.pc = "recv"
    /\ conn_in = "dropped"
    /\ forwarder' = [forwarder EXCEPT !.pc = "ended"]
    /\ UNCHANGED <<cfg, shared, control, env, probe, conn_in, callback, rx, osc_rx,
                   conn_out, senders, enqueued, mainThread>>

\* the channel is empty and every Sender is dropped: the iterator ends and the
\* thread with it, dropping osc_transposed_tx
ForwarderEnds ==
    /\ forwarder.pc = "recv"
    /\ rx = <<>>
    /\ conn_in = "dropped"
    /\ forwarder' = [forwarder EXCEPT !.pc = "ended"]
    /\ UNCHANGED <<cfg, shared, control, env, probe, conn_in, callback, rx, osc_rx,
                   conn_out, senders, enqueued, mainThread>>

\* OscSender::new succeeds and the thread enters its loop
SenderStart(r) ==
    /\ senders[r].pc = "start"
    /\ senders' = [senders EXCEPT ![r].pc = "loop"]
    /\ UNCHANGED <<cfg, shared, control, env, probe, conn_in, callback, rx, osc_rx,
                   forwarder, conn_out, enqueued, mainThread>>

\* OscSender::new fails (no socket): the thread returns, dropping its Receiver
SenderStartFails(r) ==
    /\ senders[r].pc = "start"
    /\ senders' = [senders EXCEPT ![r].pc = "ended"]
    /\ UNCHANGED <<cfg, shared, control, env, probe, conn_in, callback, rx, osc_rx,
                   forwarder, conn_out, enqueued, mainThread>>

\* a loop that goes on whatever EXIT_FLAG is
SenderCheckExit_ignored(r) ==
    /\ senders[r].pc = "loop"
    /\ senders' = [senders EXCEPT ![r].pc = "check_enabled"]
    /\ UNCHANGED <<cfg, shared, control, env, probe, conn_in, callback, rx, osc_rx,
                   forwarder, conn_out, enqueued, mainThread>>

\* the top of the loop loads EXIT_FLAG: set, break
SenderCheckExit(r) ==
    /\ senders[r].pc = "loop"
    /\ senders' = [senders EXCEPT ![r].pc = IF EXIT_FLAG THEN "ended" ELSE "check_enabled"]
    /\ UNCHANGED <<cfg, shared, control, env, probe, conn_in, callback, rx, osc_rx,
                   forwarder, conn_out, enqueued, mainThread>>

\* a loop that goes on to recv_timeout whatever enable_flag is
SenderCheckEnabled_always(r) ==
    /\ senders[r].pc = "check_enabled"
    /\ senders' = [senders EXCEPT ![r].pc = "recv"]
    /\ UNCHANGED <<cfg, shared, control, env, probe, conn_in, callback, rx, osc_rx,
                   forwarder, conn_out, enqueued, mainThread>>

\* the loop loads enable_flag: clear, sleep 10 ms and continue
SenderCheckEnabled(r) ==
    /\ senders[r].pc = "check_enabled"
    /\ senders' = [senders EXCEPT ![r].pc = IF OSC_SENDING_ENABLED THEN "recv" ELSE "loop"]
    /\ UNCHANGED <<cfg, shared, control, env, probe, conn_in, callback, rx, osc_rx,
                   forwarder, conn_out, enqueued, mainThread>>

\* recv_timeout returns Ok(raw_bytes): the message is converted and sent
SenderRecv(r) ==
    /\ senders[r].pc = "recv"
    /\ osc_rx[r] # <<>>
    /\ osc_rx' = [osc_rx EXCEPT ![r] = Tail(@)]
    /\ LET out == relay(senders[r].key_states, Head(osc_rx[r]))
       IN senders' = [senders EXCEPT ![r] =
                         [pc |-> "loop", got |-> Append(@.got, Head(osc_rx[r])),
                          key_states |-> out.key_states, sent |-> @.sent \o out.sent]]
    /\ UNCHANGED <<cfg, shared, control, env, probe, conn_in, callback, rx, forwarder,
                   conn_out, enqueued, mainThread>>

\* a relay that switches relaying off when its queue stays empty
SenderTimeout_disables(r) ==
    /\ senders[r].pc = "recv"
    /\ osc_rx[r] = <<>>
    /\ SenderAlive(r)
    /\ senders' = [senders EXCEPT ![r].pc = "loop"]
    /\ OSC_SENDING_ENABLED' = FALSE
    /\ UNCHANGED <<cfg, TRANSPOSE_SEMITONES, EXIT_FLAG, DEBUG_ENABLED, OSC_SEND_ORIGINAL,
                   MQTT_ENABLED, control, env, probe, conn_in, callback, rx, osc_rx,
                   forwarder, conn_out, enqueued, mainThread>>

\* recv_timeout returns Err(Timeout): continue
SenderTimeout(r) ==
    /\ senders[r].pc = "recv"
    /\ osc_rx[r] = <<>>
    /\ SenderAlive(r)
    /\ senders' = [senders EXCEPT ![r].pc = "loop"]
    /\ UNCHANGED <<cfg, shared, control, env, probe, conn_in, callback, rx, osc_rx,
                   forwarder, conn_out, enqueued, mainThread>>

\* recv_timeout returns Err(Disconnected): break
SenderDisconnected(r) ==
    /\ senders[r].pc = "recv"
    /\ osc_rx[r] = <<>>
    /\ ~SenderAlive(r)
    /\ senders' = [senders EXCEPT ![r].pc = "ended"]
    /\ UNCHANGED <<cfg, shared, control, env, probe, conn_in, callback, rx, osc_rx,
                   forwarder, conn_out, enqueued, mainThread>>

\* run(): the wait loop sees EXIT_FLAG set; drop(_conn_in) closes the input port
\* and destroys the callback with its two Senders
MainDropInput ==
    /\ mainThread = "wait"
    /\ EXIT_FLAG
    /\ callback.pc = "idle"
    /\ conn_in' = "dropped"
    /\ mainThread' = "join"
    /\ UNCHANGED <<cfg, shared, control, env, probe, callback, rx, osc_rx, forwarder,
                   conn_out, senders, enqueued>>

\* run(): every join has returned
MainReturns ==
    /\ mainThread = "join"
    /\ stdin.pc = "ended" /\ forwarder.pc = "ended" /\ osc.pc = "ended"
    /\ \A r \in Streams : senders[r].pc = "ended"
    /\ mqtt["main"].pc \in {"none", "ended"}
    /\ mainThread' = "returned"
    /\ UNCHANGED <<cfg, shared, control, env, probe, conn_in, callback, rx, osc_rx,
                   forwarder, conn_out, senders, enqueued>>

CallbackNext == CallbackSend \/ CallbackCheckEnabled \/ CallbackCheckOriginal

ForwarderNext ==
    \/ ForwarderSkip \/ ForwarderForward \/ ForwarderCheckEnabled
    \/ ForwarderCheckOriginal \/ ForwarderEnds

SenderNext ==
    \E r \in Streams :
        \/ SenderStart(r) \/ SenderStartFails(r) \/ SenderCheckExit(r)
        \/ SenderCheckEnabled(r) \/ SenderRecv(r) \/ SenderTimeout(r)
        \/ SenderDisconnected(r)

MainNext == MainDropInput \/ MainReturns

(***************************************************************************)
(* The program: the control surfaces on the shared state                   *)
(***************************************************************************)
\* The inputs of a run.  Each run explores every input on one control surface
\* (its focus) while the other surfaces receive the core commands: set, up,
\* down, and exit on the console.
\* what a surface outside the focus of a run receives
OtherInputs == 1

CoreLines == {<<"3", "\n">>, S_exit \o <<"\n">>}
CoreDatagrams == {OscMsg(transpose_path, <<OscInt(2)>>), Up1, Down1}
CorePublishes ==
    {<<T_transpose_set, Payload(<<"5">>)>>, <<T_transpose_up, Payload(<<"1">>)>>,
     <<T_transpose_down, Payload(S_true)>>}

\* what is typed while MIDI is flowing
PipelineLines ==
    {l \o <<"\n">> : l \in {<<"7", "0">>, S_osc_on, S_osc_off, S_osc_transposed,
                             S_osc_original, S_exit}}

\* what is typed, and what the broker delivers, while the bridge mirrors the
\* state to the broker
BridgeLines == {l \o <<"\n">> : l \in {S_osc_on, S_osc_off, <<"5">>}}
BridgePublishes ==
    {<<T_osc_sending_enabled_set, Payload(<<"1">>)>>,
     <<T_osc_sending_enabled_set, Payload(<<"0">>)>>,
     <<T_transpose_set, Payload(<<"5">>)>>}

\* the broker switch typed while the bridge that run() spawned is there
ToggleLines == {l \o <<"\n">> : l \in {S_mqtt_on, S_mqtt_off}}

\* datagrams that are no command: bytes that do not decode, and messages and
\* a bundle on addresses that are not configured
IgnoredDatagrams ==
    {Undecodable, OscMsg("/other", <<OscInt(1)>>), OscMsg("/transposeup", <<OscInt(1)>>),
     OscBundle(<<OscMsg("/other", <<>>), OscMsg("/avatar/parameters/C4", <<OscInt(1)>>)>>)}

EnvOf(focus) ==
    [focus |-> focus,
     stream |-> "none",
     lines |-> IF focus = "stdin" THEN Lines
               ELSE IF focus = "toggle" THEN ToggleLines
               ELSE IF focus = "pipeline" THEN PipelineLines
               ELSE IF focus = "bridge" THEN BridgeLines ELSE CoreLines,
     max_lines |-> IF focus \in {"stdin", "pipeline", "bridge", "toggle"}
                   THEN MaxLines ELSE OtherInputs,
     datagrams |-> IF focus = "osc" THEN Datagrams
                   ELSE IF focus = "ignored" THEN IgnoredDatagrams ELSE CoreDatagrams,
     max_packets |-> IF focus \in {"osc", "ignored"} THEN MaxPackets ELSE OtherInputs,
     publishes |-> IF focus = "mqtt" THEN Publishes
                   ELSE IF focus = "bridge" THEN BridgePublishes ELSE CorePublishes,
     max_events |-> IF focus \in {"mqtt", "bridge"} THEN MaxBrokerEvents ELSE OtherInputs,
     midi |-> MidiEvents,
     max_midi |-> MaxEvents]

\* the runs explored: the surface in focus and the configuration file.  The
\* command-line and control-protocol runs start with "mqtt": {"enabled": false}
\* (the bridge then runs only once `mqtt on` is typed); the others start it.
WithRange(c, r) == [c EXCEPT !.min = r[1], !.max = r[2]]

BridgeOff == [DefaultConfig EXCEPT !.mqtt_enabled = FALSE]

Runs ==
    {<<f, WithRange(BridgeOff, r)>> : f \in {"stdin", "osc"}, r \in Ranges}
    \cup {<<"mqtt", WithRange(DefaultConfig, r)>> : r \in {<<-24, 24>>, <<-2, 3>>}}
    \cup {<<"script", DefaultConfig>>, <<"bridge", DefaultConfig>>, <<"ignored", BridgeOff>>,
          <<"toggle", DefaultConfig>>}
    \cup {<<"none", c>> : c \in Configs}

\* the state main.rs leaves when it has initialised the atomics
StartState ==
    /\ TRANSPOSE_SEMITONES = 0
    /\ EXIT_FLAG = FALSE
    /\ DEBUG_ENABLED = cfg.debug
    /\ OSC_SENDING_ENABLED = cfg.sending_enabled
    /\ OSC_SEND_ORIGINAL = cfg.send_original
    /\ MQTT_ENABLED = cfg.mqtt_enabled
    /\ MQTT_CONNECTED = FALSE
    /\ lastSet = NoCall
    /\ published = [t \in StateTopics |-> <<>>]
    /\ brokerEvents = 0

\* run() up to the spawning of the threads, then the threads at their start
Init ==
    /\ \E run \in Runs : env = EnvOf(run[1]) /\ cfg = run[2]
    /\ StartState
    /\ PipelineInit(Streams)
    /\ stdin = StdinInit
    /\ osc = OscInit(IF env.focus = "script" THEN "script" ELSE "any")
    /\ mqtt = [t \in MqttThreads |->
                  IF t = "main" /\ cfg.mqtt_enabled THEN MqttSpawned ELSE MqttNotSpawned]
    /\ probe = NoProbe

StdinNext == StdinReadLine \/ StdinReadError \/ StdinExitStoreMqtt

OscNext ==
    \/ OscBind \/ OscBindFails \/ OscExit \/ OscWait \/ OscTimeout \/ OscRecv
    \/ OscHandleBundle \/ OscHandleMessage \/ OscStep \/ OscHandled

MqttNext ==
    \E t \in MqttThreads :
        \/ MqttStart(t) \/ MqttExit(t) \/ MqttPoll(t) \/ MqttRecvPublish(t) \/ MqttStep(t)
        \/ MqttRecvConnAck(t) \/ MqttRecvError(t) \/ MqttRecvOther(t) \/ MqttSync(t)

Next == StdinNext \/ OscNext \/ MqttNext

Spec == Init /\ [][Next]_vars

(***************************************************************************)
(* The program: MIDI flowing through the callback, the forwarder and the   *)
(* OSC senders while the console changes the offset and the flags; the OSC *)
(* listener could not bind its port and the MQTT listener is disabled.     *)
(***************************************************************************)
PipelineConfigs ==
    {[DefaultConfig EXCEPT !.mqtt_enabled = FALSE, !.sending_enabled = e,
                           !.send_original = o] : e \in BOOLEAN, o \in BOOLEAN}

\* each run follows one of the two streams: the sender of the other stream
\* got no socket and returned at once
InitPipeline ==
    /\ cfg \in PipelineConfigs
    /\ \E r \in Streams :
        /\ env = [EnvOf("pipeline") EXCEPT !.stream = r]
        /\ PipelineInit({r})
    /\ StartState
    /\ stdin = StdinInit
    /\ osc = [OscInit("any") EXCEPT !.pc = "ended"]
    /\ mqtt = [t \in MqttThreads |-> MqttNotSpawned]
    /\ probe = NoProbe

NextPipeline ==
    \/ StdinReadLine \/ StdinExitStoreMqtt
    \/ CallbackNext \/ ForwarderNext \/ SenderNext \/ MainNext

SpecPipeline == InitPipeline /\ [][NextPipeline]_vars

(***************************************************************************)
(* The note transposer on its own: every call apply_transpose(buf, s) for  *)
(* buf and s drawn from the sets below, in a build with or without         *)
(* overflow checks.                                                        *)
(***************************************************************************)
ProbeStatusBytes == {128, 143, 144, 153, 176, 224, 240, 60}
ProbeDataBytes == {0, 1, 60, 100, 127}
ProbeSemitones ==
    {MinI32, MinI32 + 1, -128, -127, -61, -24, -1, 0, 1, 5, 10, 24, 67, 127,
     MaxI32 - 127, MaxI32 - 60, MaxI32 - 1, MaxI32}

ProbeBufs ==
    {<<>>}
    \cup {<<s>> : s \in ProbeStatusBytes}
    \cup {<<s, d>> : s \in ProbeStatusBytes, d \in ProbeDataBytes}
    \cup {<<s, d, 100>> : s \in ProbeStatusBytes, d \in ProbeDataBytes}
    \cup {<<144, 127, 10>>, <<144, 60, 0>>}

InitTranspose ==
    /\ cfg = DefaultConfig
    /\ env = EnvOf("none")
    /\ StartState
    /\ PipelineInit(Streams)
    /\ stdin = StdinInit
    /\ osc = OscInit("any")
    /\ mqtt = [t \in MqttThreads |-> MqttNotSpawned]
    /\ \E b \in ProbeBufs, s \in ProbeSemitones, oc \in BOOLEAN :
        probe = [fn |-> "apply_transpose", buf |-> b, semitones |-> s,
                 overflow_checks |-> oc, state |-> "called", out |-> <<>>]

\* the call returns: the buffer has been rewritten in place
TransposeReturns ==
    /\ probe.fn = "apply_transpose" /\ probe.state = "called"
    /\ ~(probe.overflow_checks /\ apply_transpose_overflows(probe.buf, probe.semitones))
    /\ probe' = [probe EXCEPT !.state = "returned",
                              !.out = apply_transpose(probe.buf, probe.semitones)]
    /\ UNCHANGED <<cfg, shared, control, env, pipeline>>

\* the call panics: "attempt to add with overflow"
TransposePanics ==
    /\ probe.fn = "apply_transpose" /\ probe.state = "called"
    /\ probe.overflow_checks /\ apply_transpose_overflows(probe.buf, probe.semitones)
    /\ probe' = [probe EXCEPT !.state = "panicked"]
    /\ UNCHANGED <<cfg, shared, control, env, pipeline>>

NextTranspose == TransposeReturns \/ TransposePanics

SpecTranspose == InitTranspose /\ [][NextTranspose]_vars

(***************************************************************************)
(* The setter called twice with the same value, by one caller; another     *)
(* writer may or may not call it in between.                               *)
(***************************************************************************)
\* the values the caller asks for, and those of the other writer
TwiceValues == {MinI32, -30, -24, -3, -1, 0, 1, 2, 3, 5, 24, 70, MaxI32}
OtherValues == {-2, 0, 4}

InitSetTwice ==
    /\ cfg \in {WithRange(DefaultConfig, r) : r \in Ranges}
    /\ env = EnvOf("none")
    /\ StartState
    /\ PipelineInit(Streams)
    /\ stdin = StdinInit
    /\ osc = OscInit("any")
    /\ mqtt = [t \in MqttThreads |-> MqttNotSpawned]
    /\ \E v \in TwiceValues :
        probe = [fn |-> "set_transpose_semitones", v |-> v, state |-> "start",
                 ret1 |-> 0, stored1 |-> 0, ret2 |-> 0, between |-> FALSE]

\* the first call set_transpose_semitones(v)
SetFirst ==
    /\ probe.fn = "set_transpose_semitones" /\ probe.state = "start"
    /\ SetTranspose("caller", probe.v)
    /\ probe' = [probe EXCEPT !.state = "first", !.ret1 = lastSet'.ret,
                              !.stored1 = TRANSPOSE_SEMITONES']
    /\ UNCHANGED <<cfg, EXIT_FLAG, flags, MQTT_CONNECTED, stdin, osc, mqtt, published,
                   brokerEvents, env, pipeline>>

\* another writer calls the setter between the two calls
SetBetween ==
    /\ probe.fn = "set_transpose_semitones" /\ probe.state = "first" /\ ~probe.between
    /\ \E w \in OtherValues : SetTranspose("other", w)
    /\ probe' = [probe EXCEPT !.between = TRUE]
    /\ UNCHANGED <<cfg, EXIT_FLAG, flags, MQTT_CONNECTED, stdin, osc, mqtt, published,
                   brokerEvents, env, pipeline>>

\* the second call set_transpose_semitones(v)
SetSecond ==
    /\ probe.fn = "set_transpose_semitones" /\ probe.state = "first"
    /\ SetTranspose("caller", probe.v)
    /\ probe' = [probe EXCEPT !.state = "second", !.ret2 = lastSet'.ret]
    /\ UNCHANGED <<cfg, EXIT_FLAG, flags, MQTT_CONNECTED, stdin, osc, mqtt, published,
                   brokerEvents, env, pipeline>>

NextSetTwice == SetFirst \/ SetBetween \/ SetSecond

SpecSetTwice == InitSetTwice /\ [][NextSetTwice]_vars

(***************************************************************************)
(* One OscSender on its own: it has converted some notes before, and the   *)
(* sender loop hands it one more message from its queue.                    *)
(***************************************************************************)
RelayStatusBytes == {128, 137, 144, 153, 160, 176, 192, 224, 227, 240, 60}
RelayData1 == {0, 1, 25, 26, 60, 61, 100, 127, 200}
RelayData2 == {0, 1, 48, 60, 64, 67, 80, 100, 127, 200}

RelayBufs ==
    {<<>>}
    \cup {<<s>> : s \in RelayStatusBytes}
    \cup {<<s, d1>> : s \in RelayStatusBytes, d1 \in RelayData1}
    \cup {<<s, d1, d2>> : s \in RelayStatusBytes, d1 \in RelayData1, d2 \in RelayData2}
    \cup {<<144, 60, 100, 7>>}

\* the key states earlier messages have left: none, C4 down, C4 down and C#4 up
RelayKeyStates ==
    {HashMap_new,
     insert(HashMap_new, midi_note_to_name(60), 1),
     insert(insert(HashMap_new, midi_note_to_name(60), 1), midi_note_to_name(61), 0)}

InitRelay ==
    /\ cfg = DefaultConfig
    /\ env = EnvOf("none")
    /\ StartState
    /\ PipelineInit(Streams)
    /\ stdin = StdinInit
    /\ osc = OscInit("any")
    /\ mqtt = [t \in MqttThreads |-> MqttNotSpawned]
    /\ \E b \in RelayBufs, ks \in RelayKeyStates :
        probe = [fn |-> "relay", raw_bytes |-> b, before |-> ks, state |-> "dequeued",
                 key_states |-> ks, sent |-> <<>>]

\* MidiMessageForOsc::new gives a message: process_midi_message converts it
RelayProcesses ==
    /\ probe.fn = "relay" /\ probe.state = "dequeued"
    /\ MidiMessageForOsc_new(probe.raw_bytes).some
    /\ LET out == relay(probe.key_states, probe.raw_bytes)
       IN probe' = [probe EXCEPT !.state = "processed", !.key_states = out.key_states,
                                 !.sent = out.sent]
    /\ UNCHANGED <<cfg, shared, control, env, pipeline>>

\* MidiMessageForOsc::new gives None: the message is dropped
RelayDrops ==
    /\ probe.fn = "relay" /\ probe.state = "dequeued"
    /\ ~MidiMessageForOsc_new(probe.raw_bytes).some
    /\ probe' = [probe EXCEPT !.state = "dropped"]
    /\ UNCHANGED <<cfg, shared, control, env, pipeline>>

NextRelay == RelayProcesses \/ RelayDrops

SpecRelay == InitRelay /\ [][NextRelay]_vars

(***************************************************************************)
(* The whole program, every thread running: the console, the OSC listener, *)
(* the MQTT listener spawned by run(), the callback, the forwarder, the    *)
(* two OSC senders and run() itself.  A thread that can take a step        *)
(* eventually takes one: calls that wait are bounded (recv_from by the     *)
(* read timeout of 200 ms, recv_timeout by its 100 ms, the sleeps by their *)
(* length) and iter.next() returns with the next event of the connection,  *)
(* at the latest the ping of the keep-alive or the outcome of a connection *)
(* attempt.  Nothing obliges the user to type, the driver to deliver MIDI, *)
(* the network to deliver datagrams or the broker to publish.              *)
(***************************************************************************)
\* what is typed while MIDI flows, while the listeners receive, and to start
\* the MQTT listener from the console
ProgramLines ==
    [midi |-> {l \o <<"\n">> : l \in {S_exit, S_osc_off, S_osc_on}},
     listeners |-> {<<>>, S_exit \o <<"\n">>},
     console |-> {l \o <<"\n">> : l \in {S_mqtt_on, S_exit}}]

\* the three runs.  "midi": two MIDI events reach the callback, the forwarder
\* and the sender of the transposed stream (the other sender got no socket),
\* while the OSC listener could not bind and the MQTT listener is disabled.
\* "listeners": the OSC listener and the MQTT listener of run() receive, no
\* MIDI arrives and no sender got a socket.  "console": the MQTT listener is
\* disabled in the configuration and `mqtt on` may start it.
ProgramEnv(run) ==
    [EnvOf("none") EXCEPT
        !.focus = run,
        !.stream = IF run = "midi" THEN "transposed" ELSE "none",
        !.lines = ProgramLines[run],
        !.max_lines = IF run = "listeners" THEN OtherInputs ELSE MaxLines,
        !.datagrams = {OscBundle(<<Up1>>)},
        !.max_packets = IF run = "listeners" THEN OtherInputs ELSE 0,
        !.publishes = {<<T_transpose_up, Payload(<<"1">>)>>},
        !.max_events = IF run = "midi" THEN 0 ELSE OtherInputs,
        !.max_midi = IF run = "midi" THEN MaxEvents ELSE 0]

InitProgram ==
    /\ \E run \in {"midi", "listeners", "console"} :
        /\ env = ProgramEnv(run)
        /\ cfg = [DefaultConfig EXCEPT !.sending_enabled = TRUE, !.send_original = FALSE,
                                       !.mqtt_enabled = (run = "listeners")]
        /\ PipelineInit(IF run = "midi" THEN {"transposed"} ELSE {})
        /\ osc = IF run = "listeners" THEN OscInit("any")
                 ELSE [OscInit("any") EXCEPT !.pc = "ended"]
    /\ StartState
    /\ stdin = StdinInit
    /\ mqtt = [t \in MqttThreads |->
                  IF t = "main" /\ cfg.mqtt_enabled THEN MqttSpawned ELSE MqttNotSpawned]
    /\ probe = NoProbe

NextProgram ==
    \/ StdinNext \/ OscNext \/ MqttNext
    \/ CallbackNext \/ ForwarderNext \/ SenderNext \/ MainNext

FairProgram ==
    /\ WF_vars(StdinExitStoreMqtt)
    /\ WF_vars(OscNext)
    /\ \A t \in MqttThreads :
          WF_vars(\/ MqttStart(t) \/ MqttExit(t) \/ MqttPoll(t) \/ MqttRecvPublish(t)
                  \/ MqttStep(t) \/ MqttRecvConnAck(t) \/ MqttRecvError(t)
                  \/ MqttRecvOther(t) \/ MqttSync(t))
    /\ WF_vars(CallbackCheckEnabled \/ CallbackCheckOriginal)
    /\ WF_vars(ForwarderNext)
    /\ \A r \in Streams :
          WF_vars(\/ SenderStart(r) \/ SenderStartFails(r) \/ SenderCheckExit(r)
                  \/ SenderCheckEnabled(r) \/ SenderRecv(r) \/ SenderTimeout(r)
                  \/ SenderDisconnected(r))
    /\ WF_vars(MainNext)

SpecProgram == InitProgram /\ [][NextProgram]_vars /\ FairProgram

(***************************************************************************)
(* The stream switch while MIDI flows: relaying is enabled and stays so,    *)
(* both relay threads hold their receivers (their own steps are not         *)
(* followed here), and `osc original` / `osc transposed` are typed while    *)
(* the callback and the forwarder work on the events.                       *)
(***************************************************************************)
SwitchLines == {l \o <<"\n">> : l \in {S_osc_original, S_osc_transposed, S_exit}}

InitSwitch ==
    /\ cfg \in {[DefaultConfig EXCEPT !.mqtt_enabled = FALSE, !.sending_enabled = TRUE,
                                      !.send_original = o] : o \in BOOLEAN}
    /\ env = [EnvOf("pipeline") EXCEPT !.focus = "switch", !.stream = "both",
                                       !.lines = SwitchLines]
    /\ PipelineInit(Streams)
    /\ StartState
    /\ stdin = StdinInit
    /\ osc = [OscInit("any") EXCEPT !.pc = "ended"]
    /\ mqtt = [t \in MqttThreads |-> MqttNotSpawned]
    /\ probe = NoProbe

NextSwitch ==
    \/ StdinReadLine \/ StdinExitStoreMqtt
    \/ CallbackNext \/ ForwarderNext \/ MainDropInput

SpecSwitch == InitSwitch /\ [][NextSwitch]_vars

(***************************************************************************)
(* A key pressed and released while the offset is changed: the driver       *)
(* delivers note-on 60, note-off 60 or an empty message, and an offset is   *)
(* typed while the callback and the forwarder work on them.                 *)
(***************************************************************************)
NoteOff60 == <<128, 60, 0>>

NotesLines == {l \o <<"\n">> : l \in {<<"5">>, S_exit}}

InitNotes ==
    /\ cfg = [DefaultConfig EXCEPT !.mqtt_enabled = FALSE, !.sending_enabled = TRUE]
    /\ env = [EnvOf("pipeline") EXCEPT !.focus = "notes", !.stream = "both",
                                       !.lines = NotesLines,
                                       !.midi = {<<>>, NoteOn60, NoteOff60}]
    /\ PipelineInit(Streams)
    /\ StartState
    /\ stdin = StdinInit
    /\ osc = [OscInit("any") EXCEPT !.pc = "ended"]
    /\ mqtt = [t \in MqttThreads |-> MqttNotSpawned]
    /\ probe = NoProbe

SpecNotes == InitNotes /\ [][NextSwitch]_vars

(***************************************************************************)
(* The address of a note on its own: for every note number of a data byte, *)
(* the path process_midi_message builds for it.                            *)
(***************************************************************************)
NoteNumbers == 0 .. 127

InitNoteAddress ==
    /\ cfg = DefaultConfig
    /\ env = EnvOf("none")
    /\ StartState
    /\ PipelineInit(Streams)
    /\ stdin = StdinInit
    /\ osc = OscInit("any")
    /\ mqtt = [t \in MqttThreads |-> MqttNotSpawned]
    /\ \E n \in NoteNumbers :
          probe = [fn |-> "osc_path", state |-> "called", data1 |-> n, osc_path |-> <<>>]

\* midi_note_to_name, note_name_for_osc and the format! of the path
NoteOscPath ==
    /\ probe.fn = "osc_path" /\ probe.state = "called"
    /\ probe' = [probe EXCEPT !.state = "returned",
                    !.osc_path = avatar_parameter(note_name_for_osc(midi_note_to_name(probe.data1)))]
    /\ UNCHANGED <<cfg, shared, control, env, pipeline>>

SpecNoteAddress == InitNoteAddress /\ [][NoteOscPath]_vars

(***************************************************************************)
(* general/check.rs: the status banner.  run() (through                    *)
(* print_final_status_after_startup) and the bridge threads (on ConnAck    *)
(* and on a connection error) call print_connections_active and            *)
(* print_connections_broken; which one a caller picks depends on flags     *)
(* and is left open here.  probe holds BANNER_PRINTED, what was written    *)
(* to stdout and each caller's position.                                   *)
(***************************************************************************)
BannerCallers == {"run", "mqtt_main", "mqtt_stdin"}

\* how often one caller calls a print function
MaxBannerCalls == 2

InitBanner ==
    /\ cfg = DefaultConfig
    /\ env = EnvOf("none")
    /\ StartState
    /\ PipelineInit(Streams)
    /\ stdin = StdinInit
    /\ osc = OscInit("any")
    /\ mqtt = [t \in MqttThreads |-> MqttNotSpawned]
    /\ probe = [fn |-> "banner", BANNER_PRINTED |-> FALSE, stdout |-> <<>>,
                pc |-> [c \in BannerCallers |-> "idle"],
                calls |-> [c \in BannerCallers |-> 0]]

\* a caller enters print_connections_active or print_connections_broken
BannerCall(c) ==
    /\ probe.fn = "banner" /\ probe.pc[c] = "idle"
    /\ probe.calls[c] < (IF c = "run" THEN 1 ELSE MaxBannerCalls)
    /\ \E f \in {"active", "broken"} :
          probe' = [probe EXCEPT !.pc[c] = f, !.calls[c] = @ + 1]
    /\ UNCHANGED <<cfg, shared, control, env, pipeline>>

\* a test of BANNER_PRINTED that stores nothing
BannerCompareExchange_load(c) ==
    /\ probe.fn = "banner" /\ probe.pc[c] \in {"active", "broken"}
    /\ probe' = IF probe.BANNER_PRINTED
                THEN [probe EXCEPT !.pc[c] = "idle"]
                ELSE [probe EXCEPT !.pc[c] = IF probe.pc[c] = "active" THEN "write_active"
                                              ELSE "write_broken"]
    /\ UNCHANGED <<cfg, shared, control, env, pipeline>>

\* BANNER_PRINTED.compare_exchange(false, true, ..): on Err the function returns
BannerCompareExchange(c) ==
    /\ probe.fn = "banner" /\ probe.pc[c] \in {"active", "broken"}
    /\ probe' = IF probe.BANNER_PRINTED
                THEN [probe EXCEPT !.pc[c] = "idle"]
                ELSE [probe EXCEPT !.BANNER_PRINTED = TRUE,
                                   !.pc[c] = IF probe.pc[c] = "active" THEN "write_active"
                                              ELSE "write_broken"]
    /\ UNCHANGED <<cfg, shared, control, env, pipeline>>

\* writeln! of the banner, and the function returns
BannerWrite(c) ==
    /\ probe.fn = "banner" /\ probe.pc[c] \in {"write_active", "write_broken"}
    /\ probe' = [probe EXCEPT !.pc[c] = "idle",
                    !.stdout = Append(@, IF probe.pc[c] = "write_active"
                                         THEN "Connections active | Program started"
                                         ELSE "Connections broken | Program tries reconnecting")]
    /\ UNCHANGED <<cfg, shared, control, env, pipeline>>

NextBanner ==
    \E c \in BannerCallers : BannerCall(c) \/ BannerCompareExchange(c) \/ BannerWrite(c)

SpecBanner == InitBanner /\ [][NextBanner]_vars

(***************************************************************************)
(* One command on every surface that takes it: the network delivers it to  *)
(* the OSC listener as a message or inside a bundle, the broker publishes  *)
(* it to the MQTT listener, and a flag command is also typed on the        *)
(* console.  `probe` holds the command of the run.                         *)
(***************************************************************************)
SetCommands == {[fn |-> "command", kind |-> "set", tenths |-> t, flag |-> "none", value |-> FALSE] :
                    t \in {50, -300, 700, 25, -25}}
StepCommands == {[fn |-> "command", kind |-> k, tenths |-> 0, flag |-> "none", value |-> FALSE] :
                    k \in {"up", "down"}}
FlagCommands == {[fn |-> "command", kind |-> "flag", tenths |-> 0, flag |-> f, value |-> b] :
                    f \in {"osc", "orig", "debug"}, b \in BOOLEAN}

\* the OSC messages that carry a command
CommandMessages(c) ==
    CASE c.kind = "set" ->
            {OscMsg(transpose_path, <<OscFloat(Fin(c.tenths))>>),
             OscMsg(transpose_path, <<OscDouble(Fin(c.tenths))>>)}
            \cup (IF c.tenths % 10 = 0
                  THEN {OscMsg(transpose_path, <<OscInt(c.tenths \div 10)>>)} ELSE {})
      [] c.kind = "up" ->
            {OscMsg(transpose_up_path, a) : a \in {<<OscInt(1)>>, <<OscFloat(Fin(10))>>,
                                                    <<OscBool(TRUE)>>}}
      [] c.kind = "down" ->
            {OscMsg(transpose_down_path, a) : a \in {<<OscInt(1)>>, <<OscFloat(Fin(10))>>,
                                                      <<OscBool(TRUE)>>}}
      [] OTHER -> {}

\* the publishes that carry a command
CommandPublishes(c) ==
    LET on == {Payload(<<"1">>), Payload(S_true), Payload(<<"O", "N">>)}
        off == {Payload(<<"0">>), Payload(<<"o", "f", "f">>)}
    IN CASE c.kind = "set" ->
               {<<T_transpose_set,
                  Payload(CASE c.tenths = 25 -> <<"2", ".", "5">>
                            [] c.tenths = -25 -> <<"-", "2", ".", "5">>
                            [] OTHER -> to_string(c.tenths \div 10))>>}
         [] c.kind = "up" -> {T_transpose_up} \X on
         [] c.kind = "down" -> {T_transpose_down} \X on
         [] OTHER ->
               {CASE c.flag = "osc" -> T_osc_sending_enabled_set
                  [] c.flag = "orig" -> T_osc_send_original_set
                  [] OTHER -> T_debug_enabled_set} \X (IF c.value THEN on ELSE off)

\* the console lines that carry a flag command; before any other command the
\* console may set the offset
CommandLines(c) ==
    {l \o <<"\n">> : l \in
        CASE c.kind # "flag" -> {<<"3">>, <<"-", "3", "0">>}
          [] c.flag = "osc" -> IF c.value THEN {S_osc_on, <<"O", "S", "C", " ", "O", "N">>}
                               ELSE {S_osc_off, S_osc_disable}
          [] c.flag = "orig" -> IF c.value THEN {S_osc_original, S_osc_input}
                                ELSE {S_osc_transposed, S_osc_output}
          [] OTHER -> IF c.value THEN {S_debug_on}
                      ELSE {<<"D", "e", "b", "u", "g", " ", "O", "F", "F">>}}

InitCommand ==
    /\ probe \in SetCommands \cup StepCommands \cup FlagCommands
    /\ cfg \in {WithRange(DefaultConfig, r) : r \in Ranges}
    /\ env = [EnvOf("none") EXCEPT
                !.focus = "command",
                !.lines = CommandLines(probe) \cup {S_exit \o <<"\n">>},
                !.datagrams = CommandMessages(probe)
                              \cup {OscBundle(<<d>>) : d \in CommandMessages(probe)},
                !.publishes = CommandPublishes(probe)]
    /\ StartState
    /\ PipelineInit(Streams)
    /\ stdin = StdinInit
    /\ osc = OscInit("any")
    /\ mqtt = [t \in MqttThreads |-> IF t = "main" THEN MqttSpawned ELSE MqttNotSpawned]

NextCommand == StdinNext \/ OscNext \/ MqttNext

SpecCommand == InitCommand /\ [][NextCommand]_vars

(***************************************************************************)
(* Properties                                                              *)
(***************************************************************************)
\* clamp(v, lo, hi) of the specification, on the integers
Clamp(v, lo, hi) == IF v < lo THEN lo ELSE IF v > hi THEN hi ELSE v

\* C1: in every reachable state, startup included, the stored transpose
\* offset lies in the configured range [min, max].
C1_OffsetWithinRange ==
    cfg.min <= TRANSPOSE_SEMITONES /\ TRANSPOSE_SEMITONES <= cfg.max

\* clamp(note + offset, 0, 127) computed on the integers, without forming a
\* sum that leaves the 32-bit range
ClampedNote(note, offset) ==
    IF offset >= 127 - note THEN 127
    ELSE IF offset <= -note THEN 0
    ELSE note + offset

\* C2: for every message with a note-on or note-off status and a note byte,
\* and every 32-bit offset, apply_transpose returns the message with byte 1
\* replaced by clamp(note + offset, 0, 127), the sum taken without
\* wrap-around, and every other byte and the length unchanged.
C2_NoteShiftedAndClamped ==
    (probe.fn = "apply_transpose" /\ HasNoteByte(probe.buf) /\ probe.state # "called") =>
        /\ probe.state = "returned"
        /\ probe.out = [probe.buf EXCEPT ![2] = ClampedNote(probe.buf[2], probe.semitones)]

\* C3: apply_transpose returns its input unchanged when the status is neither
\* note-on nor note-off, when the message is empty, and when a note message
\* has no note byte; and no call of it fails, whatever the input.
C3_OthersUnchangedNeverFails ==
    probe.fn = "apply_transpose" =>
        /\ probe.state # "panicked"
        /\ ((probe.state = "returned" /\ ~HasNoteByte(probe.buf)) => probe.out = probe.buf)

\* C4: every call set_transpose_semitones(v) returns clamp(v, min, max), which
\* lies in [min, max] and is v when v is in range, and the offset read right
\* after the call, before any other write, is the value returned.
C4_SetterClampsStoresReturns ==
    lastSet.who # "none" =>
        /\ lastSet.ret = Clamp(lastSet.arg, cfg.min, cfg.max)
        /\ cfg.min <= lastSet.ret /\ lastSet.ret <= cfg.max
        /\ ((cfg.min <= lastSet.arg /\ lastSet.arg <= cfg.max) => lastSet.ret = lastSet.arg)
        /\ TRANSPOSE_SEMITONES = lastSet.ret

\* C4 happens: after a console line, the OSC listener asked for more than max
C4_Witness ==
    /\ lastSet.who = "osc"
    /\ lastSet.arg > cfg.max
    /\ TRANSPOSE_SEMITONES = cfg.max
    /\ stdin.lines > 0

\* C8: a console line that is a bare signed integer v, "0" and "1" included,
\* sets the offset to clamp(v, min, max), echoes the clamped value and
\* changes no feature flag.
C8_BareIntegerSetsOffset ==
    [][(stdin'.lines = stdin.lines + 1 /\ stdin'.pc # "ended"
            /\ parse_i32(trim(stdin'.line)).ok) =>
        LET v == parse_i32(trim(stdin'.line)).v IN
        /\ TRANSPOSE_SEMITONES' = Clamp(v, cfg.min, cfg.max)
        /\ stdin'.echo = [msg |-> "Transpose set to", v |-> Clamp(v, cfg.min, cfg.max)]
        /\ UNCHANGED flags]_vars

\* a step of the OSC listener that handles the message at the head of its work
OscHandles(addr) ==
    /\ osc.pc = "handle" /\ osc.stack # <<>>
    /\ Head(osc.stack).kind = "msg" /\ Head(osc.stack).addr = addr
    /\ osc' # osc

\* the first argument is an integer or a float equal to 1, or boolean true
Truthy(args) ==
    /\ Len(args) > 0
    /\ args[1] \in {OscInt(1), OscLong(0, 1), OscFloat(Fin(10)), OscDouble(Fin(10)),
                    OscBool(TRUE)}

\* the offsets the test script expects after 0, 1, ..., 6 of its messages
ScriptOffsets == <<0, 3, 4, 5, 4, 0, -1>>

Nearest(tenths) ==
    IF tenths >= 0 THEN (tenths + 5) \div 10 ELSE -((5 - tenths) \div 10)

\* C10: a set-absolute message whose first argument is an integer v, or a
\* float that rounds to v, stores clamp(v, min, max) through
\* set_transpose_semitones; with no argument, a non-numeric argument or a
\* 64-bit integer outside the 32-bit range, the offset and every flag stay as
\* they are; either way the listener goes on.
C10_SetMessages ==
    [][OscHandles(transpose_path) =>
        LET args == Head(osc.stack).args
            numeric == /\ Len(args) > 0
                       /\ \/ args[1].ty = "Int"
                          \/ args[1].ty = "Long" /\ args[1].hi = 0
                          \/ args[1].ty \in {"Float", "Double"} /\ args[1].f.k = "fin"
            ignored == \/ Len(args) = 0
                       \/ args[1].ty \in {"String", "Bool"}
                       \/ args[1].ty = "Long" /\ args[1].hi # 0
            v == IF args[1].ty \in {"Int", "Long"} THEN args[1].v
                 ELSE Nearest(args[1].f.tenths)
        IN /\ osc'.pc = "handle"
           /\ UNCHANGED <<EXIT_FLAG, flags>>
           /\ (numeric => /\ TRANSPOSE_SEMITONES' = Clamp(v, cfg.min, cfg.max)
                          /\ lastSet' = [who |-> "osc", arg |-> v,
                                         ret |-> Clamp(v, cfg.min, cfg.max)])
           /\ (ignored => UNCHANGED <<TRANSPOSE_SEMITONES, lastSet>>)]_vars

\* C10 happens: /transpose 2.5 has set the offset to 3
C10_Witness ==
    /\ osc.msg = OscMsg(transpose_path, <<OscFloat(Fin(25))>>)
    /\ lastSet = [who |-> "osc", arg |-> 3, ret |-> 3]
    /\ TRANSPOSE_SEMITONES = 3

\* the last element of a non-empty sequence
Last(s) == s[Len(s)]

\* the note transposition of the specification on one message, offset in range
Transposed(message, offset) ==
    IF Len(message) > 1 /\ message[1] >= 128 /\ message[1] <= 159
    THEN [message EXCEPT ![2] = Clamp(message[2] + offset, 0, 127)]
    ELSE message

\* C5: for each non-empty message it dequeues the forwarder loads the offset
\* at that moment and writes apply_transpose(message, offset) to the MIDI
\* output; it then enqueues those transposed bytes to the transposed relay
\* queue exactly when it reads relay-enabled as true and then send-original
\* as false; an empty message gives no output and no enqueue; and once 70
\* has been requested under the bounds [-24, 24], note 60 goes out as 84.
C5_ForwarderTransposesAndRelays ==
    /\ [][/\ ((forwarder.pc = "recv" /\ rx' # rx /\ Len(rx') < Len(rx)) =>
                IF Head(rx) = <<>>
                THEN UNCHANGED <<conn_out, osc_rx, enqueued, forwarder>>
                ELSE /\ conn_out' = Append(conn_out,
                            [msg |-> Head(rx), t |-> TRANSPOSE_SEMITONES,
                             out |-> Transposed(Head(rx), TRANSPOSE_SEMITONES)])
                     /\ forwarder'.pc = "check_enabled"
                     /\ UNCHANGED osc_rx)
           /\ ((forwarder.pc = "check_enabled" /\ forwarder' # forwarder) =>
                /\ UNCHANGED <<conn_out, osc_rx>>
                /\ forwarder'.pc = (IF OSC_SENDING_ENABLED THEN "check_original" ELSE "recv"))
           /\ ((forwarder.pc = "check_original" /\ forwarder' # forwarder) =>
                /\ UNCHANGED conn_out
                /\ forwarder'.pc = "recv"
                /\ enqueued' = IF ~OSC_SEND_ORIGINAL /\ ReceiverAlive("transposed")
                               THEN [enqueued EXCEPT !["transposed"] =
                                        Append(@, Last(conn_out).out)]
                               ELSE enqueued
                /\ osc_rx' = IF ~OSC_SEND_ORIGINAL /\ ReceiverAlive("transposed")
                             THEN [osc_rx EXCEPT !["transposed"] =
                                      Append(@, Last(conn_out).out)]
                             ELSE osc_rx)]_vars
    /\ []((cfg.min = -24 /\ cfg.max = 24 /\ lastSet.arg = 70) =>
            /\ TRANSPOSE_SEMITONES = 24
            /\ \A i \in DOMAIN conn_out :
                  ((conn_out[i].msg = NoteOn60 /\ conn_out[i].t = TRANSPOSE_SEMITONES) =>
                      conn_out[i].out = <<144, 84, 100>>))

\* C5 happens: 70 was typed, note 60 went out as 84 and on to the relay queue
C5_Witness ==
    /\ lastSet = [who |-> "stdin", arg |-> 70, ret |-> 24]
    /\ conn_out # <<>>
    /\ Last(conn_out) = [msg |-> NoteOn60, t |-> 24, out |-> <<144, 84, 100>>]
    /\ enqueued["transposed"] # <<>>
    /\ Last(enqueued["transposed"]) = <<144, 84, 100>>

\* the non-empty messages of a sequence, in order
RECURSIVE NonEmpty(_)
NonEmpty(s) ==
    IF s = <<>> THEN <<>>
    ELSE IF Head(s) = <<>> THEN NonEmpty(Tail(s))
    ELSE <<Head(s)>> \o NonEmpty(Tail(s))

\* the messages the forwarder has written, as it received them
Written == [i \in DOMAIN conn_out |-> conn_out[i].msg]

\* whether the consumer of a queue has ended
ConsumerEnded(q) == IF q = "forwarder" THEN forwarder.pc = "ended" ELSE senders[q].pc = "ended"

\* each queue hands its messages over in the order of their enqueueing, each
\* at most once: what was enqueued is what was taken followed by what waits
QueuesInOrder ==
    /\ NonEmpty(enqueued["forwarder"]) = Written \o NonEmpty(rx)
    /\ \A r \in Streams : enqueued[r] = senders[r].got \o osc_rx[r]

\* C6 as stated: in order, and every enqueued message is dequeued, by the
\* forwarder and by each relay, so that a consumer that has ended has left
\* nothing in its queue.
C6_EveryMessageDequeuedOnce ==
    /\ QueuesInOrder
    /\ ConsumerEnded("forwarder") => rx = <<>>
    /\ \A r \in Streams : ConsumerEnded(r) => osc_rx[r] = <<>>

\* C6, amended: the forwarder writes the non-empty messages the callback
\* enqueued in their order and, once it has ended, all of them; each relay
\* takes the messages of its queue in their order, each at most once, but may
\* end (Exit Flag set) with messages left in its queue.
C6_InOrderAtMostOnce ==
    /\ QueuesInOrder
    /\ ConsumerEnded("forwarder") => rx = <<>>

\* C6 happens: two different messages went through the forwarder and its
\* relay in order, and the forwarder has ended
C6_Witness ==
    /\ forwarder.pc = "ended"
    /\ Len(conn_out) = 2 /\ conn_out[1].msg # conn_out[2].msg
    /\ Len(senders["transposed"].got) = 2

\* C7: on every MIDI event the callback enqueues the raw bytes to the
\* forwarder queue whatever the flags; it enqueues them to the original relay
\* queue exactly when it reads relay-enabled as true and then send-original
\* as true; a step of the callback is always possible (it never waits); and
\* an enqueue on a closed queue changes nothing.
C7_CallbackEnqueues ==
    /\ [][/\ ((callback.pc = "idle" /\ callback' # callback) =>
                /\ rx' = Append(rx, callback'.message)
                /\ enqueued' = [enqueued EXCEPT !["forwarder"] = Append(@, callback'.message)]
                /\ callback'.pc = "check_enabled"
                /\ UNCHANGED osc_rx)
           /\ ((callback.pc = "check_enabled" /\ callback' # callback) =>
                /\ UNCHANGED <<rx, osc_rx, enqueued>>
                /\ callback'.pc = (IF OSC_SENDING_ENABLED THEN "check_original" ELSE "idle"))
           /\ ((callback.pc = "check_original" /\ callback' # callback) =>
                /\ UNCHANGED <<rx, shared, forwarder, senders, conn_out, conn_in>>
                /\ callback'.pc = "idle"
                /\ osc_rx' = IF OSC_SEND_ORIGINAL /\ ReceiverAlive("original")
                             THEN [osc_rx EXCEPT !["original"] = Append(@, callback.message)]
                             ELSE osc_rx
                /\ enqueued' = IF OSC_SEND_ORIGINAL /\ ReceiverAlive("original")
                               THEN [enqueued EXCEPT !["original"] =
                                        Append(@, callback.message)]
                               ELSE enqueued)]_vars
    /\ [](callback.pc # "idle" => ENABLED CallbackNext)

\* C7 happens: one event reached both queues, the next one found the
\* original relay queue closed
C7_Witness ==
    /\ Len(enqueued["forwarder"]) = 2
    /\ Len(enqueued["original"]) = 1
    /\ ~ReceiverAlive("original")
    /\ callback.pc = "check_original" /\ OSC_SEND_ORIGINAL

\* C11: whenever a connected bridge ends a processing iteration, every state
\* topic carries the current value of its entity, so that a change made by the
\* command-line or control-protocol listener that is not changed again is
\* published by the end of the bridge's next iteration; and no step of those
\* two listeners publishes anything.
C11_BridgePublishesChanges ==
    /\ [][\A t \in MqttThreads :
            (mqtt[t].pc = "sync" /\ mqtt'[t].pc = "next" /\ mqtt[t].session)
            => (/\ published'[T_transpose_state] = to_string(TRANSPOSE_SEMITONES')
                /\ published'[T_osc_sending_enabled_state] = BoolText(OSC_SENDING_ENABLED')
                /\ published'[T_osc_send_original_state] = BoolText(OSC_SEND_ORIGINAL')
                /\ published'[T_debug_enabled_state] = BoolText(DEBUG_ENABLED'))]_vars
    /\ [][(stdin' # stdin \/ osc' # osc) => published' = published]_vars

\* C13: once set, the Exit Flag stays set: no step takes it from true to false.
C13_ExitFlagOneWay == [][EXIT_FLAG => EXIT_FLAG']_vars

\* C13 happens: the flag was set and the listeners went on to see it and end
C13_Witness ==
    /\ EXIT_FLAG
    /\ stdin.pc = "ended" /\ osc.pc = "ended" /\ mqtt["main"].pc = "ended"
    /\ osc.handled > 0 /\ brokerEvents > 0

\* a line as the user means it: trimmed, letter case folded
CommandWord(raw) == to_ascii_lowercase(trim(raw))

\* a blank line, the end of input, or exit/quit/q in any letter case
ExitLine(raw) == CommandWord(raw) \in {<<>>, S_exit, S_quit, S_q}

\* C14: the command-line listener sets the Exit Flag and leaves its loop on a
\* blank line, at the end of input and on exit/quit/q in any letter case; on
\* every other line it leaves the Exit Flag false and goes on reading.
C14_ExitExactlyOnExitLines ==
    [][(stdin'.lines = stdin.lines + 1)
       => IF ExitLine(stdin'.line)
          THEN EXIT_FLAG' /\ stdin'.pc # "read"
          ELSE ~EXIT_FLAG' /\ stdin'.pc = "read"]_vars

\* the flag commands: the flag each one names, the value it asks for and its
\* confirmation
FlagCommand(w) ==
    CASE w \in {S_osc_on, S_osc_enable} ->
            [flag |-> "osc", value |-> TRUE, echo |-> "OSC sending enabled"]
      [] w \in {S_osc_off, S_osc_disable} ->
            [flag |-> "osc", value |-> FALSE, echo |-> "OSC sending disabled"]
      [] w \in {S_osc_original, S_osc_input} ->
            [flag |-> "orig", value |-> TRUE, echo |-> "OSC sending original input MIDI"]
      [] w \in {S_osc_transposed, S_osc_output} ->
            [flag |-> "orig", value |-> FALSE, echo |-> "OSC sending transposed MIDI"]
      [] w = S_debug_on -> [flag |-> "debug", value |-> TRUE, echo |-> "Debug enabled"]
      [] w = S_debug_off -> [flag |-> "debug", value |-> FALSE, echo |-> "Debug disabled"]
      [] w = S_mqtt_on -> [flag |-> "mqtt", value |-> TRUE, echo |-> "MQTT enabled"]
      [] w = S_mqtt_off ->
            [flag |-> "mqtt", value |-> FALSE,
             echo |-> "MQTT disabled (listener will stop on next reconnect/exit)"]
      [] OTHER -> [flag |-> "none", value |-> FALSE, echo |-> ""]

\* C15: a flag command of the command-line listener, in any letter case, sets
\* the flag it names to the value it names and prints the matching
\* confirmation; the other flags, the transpose offset and the Exit Flag stay
\* as they are.
C15_FlagCommandsSetOwnFlag ==
    [][(stdin'.lines = stdin.lines + 1 /\ FlagCommand(CommandWord(stdin'.line)).flag # "none")
       => LET c == FlagCommand(CommandWord(stdin'.line)) IN
          /\ FlagValues' = [FlagValues EXCEPT ![c.flag] = c.value]
          /\ stdin'.echo = Echo(c.echo)
          /\ stdin'.pc = "read"
          /\ TRANSPOSE_SEMITONES' = TRANSPOSE_SEMITONES
          /\ lastSet' = lastSet
          /\ EXIT_FLAG' = EXIT_FLAG]_vars

\* C15 happens: `osc on` took relay-enabled from false to true and `osc off`
\* has just taken it back to false
C15_Witness ==
    /\ ~cfg.sending_enabled /\ \A t \in MqttThreads : mqtt[t].pc = "none"
    /\ stdin.lines = 2 /\ stdin.line = S_osc_off \o <<"\n">>
    /\ stdin.before.osc
    /\ ~OSC_SENDING_ENABLED
    /\ stdin.echo = Echo("OSC sending disabled")

\* C16: when the same flag command is entered twice in a row, the flag ends
\* with the value it had before the first of the two.
C16_SameCommandTwiceRestores ==
    [][(/\ stdin'.lines = stdin.lines + 1 /\ stdin.lines > 0
        /\ stdin'.line = stdin.line
        /\ FlagCommand(CommandWord(stdin'.line)).flag # "none")
       => FlagValues'[FlagCommand(CommandWord(stdin'.line)).flag]
              = stdin.before[FlagCommand(CommandWord(stdin'.line)).flag]]_vars

\* C17: a second set_transpose_semitones(v) made right after a first one, with
\* no other writer in between, returns what the first returned and leaves the
\* stored offset as the first left it.
C17_SecondSetChangesNothing ==
    (probe.fn = "set_transpose_semitones" /\ probe.state = "second" /\ ~probe.between)
    => (/\ probe.ret2 = probe.ret1
        /\ TRANSPOSE_SEMITONES = probe.stored1
        /\ probe.ret1 = Clamp(probe.v, cfg.min, cfg.max))

\* C17 happens: 70 was set twice under a range that ends below it
C17_Witness ==
    /\ probe.fn = "set_transpose_semitones" /\ probe.state = "second" /\ ~probe.between
    /\ probe.v = 70 /\ cfg.max = 3 /\ probe.ret2 = 3 /\ TRANSPOSE_SEMITONES = 3

\* the note names of the specification for the note numbers in use: the
\* pitch class, whether it is sharp, and the octave note/12 - 1
NoteTable ==
    (0 :> [letter |-> "C", sharp |-> FALSE, octave |-> <<"-", "1">>])
    @@ (1 :> [letter |-> "C", sharp |-> TRUE, octave |-> <<"-", "1">>])
    @@ (25 :> [letter |-> "C", sharp |-> TRUE, octave |-> <<"1">>])
    @@ (26 :> [letter |-> "D", sharp |-> FALSE, octave |-> <<"1">>])
    @@ (60 :> [letter |-> "C", sharp |-> FALSE, octave |-> <<"4">>])
    @@ (61 :> [letter |-> "C", sharp |-> TRUE, octave |-> <<"4">>])
    @@ (100 :> [letter |-> "E", sharp |-> FALSE, octave |-> <<"7">>])
    @@ (127 :> [letter |-> "G", sharp |-> FALSE, octave |-> <<"9">>])

\* the key of a note in the recorded key states, and its escaped name in an address
NoteKey(n) ==
    <<NoteTable[n].letter>> \o (IF NoteTable[n].sharp THEN <<"#">> ELSE <<>>)
    \o NoteTable[n].octave
NoteAddress(n) ==
    <<"/avatar/parameters/", NoteTable[n].letter>>
    \o (IF NoteTable[n].sharp THEN <<"S", "H", "A", "R", "P">> ELSE <<>>)
    \o NoteTable[n].octave

\* the recorded key states are those before, but for note n which is now at v
RecordedAs(n, v) ==
    /\ DOMAIN probe.key_states = DOMAIN probe.before \cup {NoteKey(n)}
    /\ probe.key_states[NoteKey(n)] = v
    /\ \A k \in DOMAIN probe.before : k # NoteKey(n) => probe.key_states[k] = probe.before[k]

\* the one message sent is the integer v at the address of note n
SentInt(n, v) ==
    /\ Len(probe.sent) = 1
    /\ probe.sent[1].kind = "msg"
    /\ probe.sent[1].addr = NoteAddress(n)
    /\ Len(probe.sent[1].args) = 1
    /\ probe.sent[1].args[1].ty = "Int"
    /\ probe.sent[1].args[1].v = v

\* C19: of a dequeued message of a status byte and two data bytes, the first a
\* note number (at most 127): a note-on (status nibble 0x9) with velocity > 0
\* sends the integer 1 at /avatar/parameters/<NoteName> and records the note as
\* down; a note-on with velocity 0 or a note-off (nibble 0x8) sends the integer 0
\* at the same address and records the note as up.  A message of any length with
\* a status nibble other than 0x8, 0x9 and 0xE sends nothing and leaves the
\* recorded key states as they were.
C19_NotesToIntegers ==
    (probe.fn = "relay" /\ probe.state = "processed") =>
        LET b == probe.raw_bytes
            nibble == b[1] - (b[1] % 16)
        IN /\ (Len(b) >= 3 /\ b[2] <= 127 /\ nibble = 144 /\ b[3] > 0)
                => (SentInt(b[2], 1) /\ RecordedAs(b[2], 1))
           /\ (Len(b) >= 3 /\ b[2] <= 127
               /\ ((nibble = 144 /\ b[3] = 0) \/ nibble = 128))
                => (SentInt(b[2], 0) /\ RecordedAs(b[2], 0))
           /\ (nibble \notin {128, 144, 224})
                => (probe.sent = <<>> /\ probe.key_states = probe.before)

\* a C#4 note-on has been converted while C4 was down, and so has a note-off
\* of C4, and a control change
C19_Witness ==
    /\ probe.fn = "relay" /\ probe.state = "processed"
    /\ probe.before = insert(HashMap_new, <<"C", "4">>, 1)
    /\ probe.raw_bytes = <<153, 61, 100>>
    /\ probe.sent # <<>>
    /\ DOMAIN probe.key_states = {<<"C", "4">>, <<"C", "#", "4">>}

\* C20: a pitch bend (status nibble 0xE) with the 14-bit value
\* b = data2*128 + data1 (both data bytes at most 127) and r the nearest tenth
\* of (b - 8192)/8192: r > 0 sends the float r at /avatar/parameters/PitchUp,
\* r < 0 sends |r| at /avatar/parameters/PitchDown, b = 8192 sends nothing, and
\* no pitch bend changes the recorded key states.  Every float sent, whatever
\* the data bytes, lies in [0.0, 1.0].
C20_PitchBendToFloat ==
    (probe.fn = "relay" /\ probe.state = "processed"
     /\ probe.raw_bytes[1] - (probe.raw_bytes[1] % 16) = 224) =>
        LET b == probe.raw_bytes
            bend == b[3] * 128 + b[2]
            \* t tenths is a nearest tenth of (bend - 8192)/8192
            NearestTenth(t) ==
                /\ 16384 * t - 8192 <= 20 * (bend - 8192)
                /\ 20 * (bend - 8192) <= 16384 * t + 8192
            SentFloat(name, t) ==
                /\ Len(probe.sent) = 1
                /\ probe.sent[1].kind = "msg"
                /\ probe.sent[1].addr = <<"/avatar/parameters/">> \o name
                /\ Len(probe.sent[1].args) = 1
                /\ probe.sent[1].args[1].ty = "Float"
                /\ probe.sent[1].args[1].f = [k |-> "fin", tenths |-> t]
        IN /\ probe.key_states = probe.before
           /\ (Len(b) >= 3 /\ b[2] <= 127 /\ b[3] <= 127) =>
                \E t \in -10 .. 10 :
                    /\ NearestTenth(t)
                    /\ (t > 0) => SentFloat(<<"P", "i", "t", "c", "h", "U", "p">>, t)
                    /\ (t < 0) => SentFloat(<<"P", "i", "t", "c", "h", "D", "o", "w", "n">>, -t)
                    /\ (t = 0) => probe.sent = <<>>
           /\ (Len(b) >= 3 /\ b[2] = 0 /\ b[3] = 64) => probe.sent = <<>>
           /\ \A i \in 1 .. Len(probe.sent) :
                /\ probe.sent[i].args[1].ty = "Float"
                /\ probe.sent[i].args[1].f.k = "fin"
                /\ probe.sent[i].args[1].f.tenths \in 0 .. 10

\* the bend 8602 (data bytes 26 and 67), whose 0.05005 rounds up to 0.1, has
\* been sent at PitchUp
C20_Witness ==
    /\ probe.fn = "relay" /\ probe.state = "processed"
    /\ probe.raw_bytes = <<224, 26, 67>>
    /\ Len(probe.sent) = 1
    /\ probe.sent[1].args[1].f.tenths = 1

\* C18: a relay thread dequeues from its queue only while relay-enabled
\* (OSC_SENDING_ENABLED) is true, and a step that dequeues takes the message at
\* the head of the queue and leaves the rest of the queue in its order.
C18_DisabledRelayDequeuesNothing ==
    [][\A r \in Streams :
          (senders'[r].got # senders[r].got) =>
              /\ OSC_SENDING_ENABLED
              /\ osc_rx[r] # <<>>
              /\ senders'[r].got = Append(senders[r].got, Head(osc_rx[r]))
              /\ osc_rx'[r] = Tail(osc_rx[r])]_vars

\* every thread the program has started has ended
AllThreadsEnded ==
    /\ stdin.pc = "ended"
    /\ forwarder.pc = "ended"
    /\ \A r \in Streams : senders[r].pc = "ended"
    /\ osc.pc = "ended"
    /\ \A t \in MqttThreads : mqtt[t].pc \in {"none", "ended"}

\* C12: once the Exit Flag is set, the console thread, the forwarder, both
\* relays, the OSC listener and the MQTT listener eventually end and run()
\* returns, given that every bounded wait times out and the connection to
\* the broker keeps yielding events; run() returns only after it has dropped
\* the input connection and the threads it joins have ended.
C12_ShutdownCompletes ==
    /\ EXIT_FLAG ~> (mainThread = "returned" /\ AllThreadsEnded)
    /\ [](mainThread = "returned" =>
            /\ conn_in = "dropped"
            /\ stdin.pc = "ended" /\ forwarder.pc = "ended" /\ osc.pc = "ended"
            /\ \A r \in Streams : senders[r].pc = "ended"
            /\ mqtt["main"].pc \in {"none", "ended"})

\* run() has returned after the OSC listener and the MQTT listener each
\* received something and ended
C12_Witness ==
    /\ EXIT_FLAG
    /\ mainThread = "returned" /\ AllThreadsEnded
    /\ osc.recvd = 1 /\ brokerEvents = 1 /\ mqtt["main"].pc = "ended"

\* C18 as the code has it: a relay thread goes on to its receive only when it
\* has just read relay-enabled as true, and dequeues only from there, one
\* message per iteration: the head of its queue, which it converts, the
\* rest staying queued in order; an iteration that reads relay-enabled as
\* false dequeues nothing.  What a queue has accepted is at all times what its
\* relay has dequeued followed by what is still queued.  If from some time on
\* relay-enabled stays true and the Exit Flag stays clear, every queue of a
\* running relay is eventually drained.
C18_RelayDequeuesAfterReadingEnabled ==
    /\ [][\A r \in Streams :
            /\ (senders'[r].pc = "recv" /\ senders[r].pc # "recv") => OSC_SENDING_ENABLED
            /\ (senders'[r].got # senders[r].got) =>
                  /\ senders[r].pc = "recv" /\ senders'[r].pc = "loop"
                  /\ osc_rx[r] # <<>>
                  /\ senders'[r].got = Append(senders[r].got, Head(osc_rx[r]))
                  /\ osc_rx'[r] = Tail(osc_rx[r])
                  /\ senders'[r].sent =
                        senders[r].sent \o relay(senders[r].key_states, Head(osc_rx[r])).sent
            /\ (senders[r].pc = "check_enabled" /\ ~OSC_SENDING_ENABLED
                /\ senders'[r] # senders[r]) =>
                  (senders'[r].pc = "loop" /\ senders'[r].got = senders[r].got)]_vars
    /\ [](\A r \in Streams : enqueued[r] = senders[r].got \o osc_rx[r])
    /\ (<>[](OSC_SENDING_ENABLED /\ ~EXIT_FLAG)) =>
            <>[](\A r \in Streams : osc_rx[r] = <<>> \/ senders[r].pc = "ended")

\* relay-enabled is false after `osc off`, the relay of the transposed stream
\* has dequeued one message before and is back at the top of its loop, and a
\* second message waits in its queue
C18_Witness ==
    /\ ~OSC_SENDING_ENABLED /\ ~EXIT_FLAG
    /\ stdin.line = S_osc_off \o <<"\n">>
    /\ senders["transposed"].pc = "loop"
    /\ Len(senders["transposed"].got) = 1
    /\ Len(osc_rx["transposed"]) = 1

\* a step in which a surface takes a transpose command in, and the steps that
\* complete an increment or a decrement; s and t are the thread of the surface
\* before and after the step
SurfaceStep(received, s, t) ==
    /\ (received /\ probe.kind = "set") =>
          /\ TRANSPOSE_SEMITONES' = Clamp(Nearest(probe.tenths), cfg.min, cfg.max)
          /\ UNCHANGED <<EXIT_FLAG, flags>>
    /\ (received /\ probe.kind \in {"up", "down"}) =>
          /\ t.pc = probe.kind /\ t.current = TRANSPOSE_SEMITONES
          /\ UNCHANGED <<TRANSPOSE_SEMITONES, EXIT_FLAG, flags>>
    /\ (s.pc = "up" /\ t # s) =>
          /\ TRANSPOSE_SEMITONES' = Clamp(s.current + 1, cfg.min, cfg.max)
          /\ UNCHANGED <<EXIT_FLAG, flags>>
    /\ (s.pc = "down" /\ t # s) =>
          /\ TRANSPOSE_SEMITONES' = Clamp(s.current - 1, cfg.min, cfg.max)
          /\ UNCHANGED <<EXIT_FLAG, flags>>

\* a step in which a surface takes a flag command in
FlagStep(received) ==
    (received /\ probe.kind = "flag") =>
        /\ FlagValues' = [FlagValues EXCEPT ![probe.flag] = probe.value]
        /\ UNCHANGED <<TRANSPOSE_SEMITONES, EXIT_FLAG>>

RECURSIVE Flatten(_)
Flatten(packets) ==
    IF packets = <<>> THEN <<>>
    ELSE IF Head(packets).kind = "bundle"
         THEN Flatten(Head(packets).content) \o Flatten(Tail(packets))
    ELSE IF Head(packets).kind = "msg"
         THEN <<Head(packets)>> \o Flatten(Tail(packets))
    ELSE Flatten(Tail(packets))

\* clamp to the configured range
ClampC(v) == Clamp(v, cfg.min, cfg.max)

\* C22: what the OSC listener handles of a received packet is the sequence of
\* the messages it contains at any depth, in order, each handled as a message
\* received on its own: unwrapping a bundle changes no shared state and keeps
\* the messages still to be handled, a message step handles the first of them.
\* An empty bundle changes nothing.  With no other writer the bundle
\* [set 2, [down, /other, up], down] leaves clamp(clamp(clamp(clamp(2) - 1) + 1) - 1)
\* and the bundle [up, up] leaves clamp(clamp(0 + 1) + 1).
C22_BundleAsItsMessages ==
    /\ [][(osc.pc = "handle" /\ osc' # osc) =>
            LET todo == Flatten(osc.stack) IN
            IF osc.stack = <<>>
            THEN UNCHANGED <<shared, lastSet>> /\ osc'.pc = "loop"
            ELSE IF Head(osc.stack).kind = "bundle"
            THEN /\ UNCHANGED <<shared, lastSet>>
                 /\ osc'.pc = "handle" /\ osc'.handled = osc.handled
                 /\ Flatten(osc'.stack) = todo
                 /\ (Head(osc.stack).content = <<>> => osc'.stack = Tail(osc.stack))
            ELSE /\ osc'.msg = Head(todo)
                 /\ osc'.handled = osc.handled + 1
                 /\ Flatten(osc'.stack) = Tail(todo)]_vars
    /\ []((env.focus = "osc" /\ osc.pc \in {"loop", "recv"} /\ osc.recvd = 1
           /\ stdin.lines = 0 /\ brokerEvents = 0) =>
            /\ (osc.handled = 5 =>
                  TRANSPOSE_SEMITONES = ClampC(ClampC(ClampC(ClampC(2) - 1) + 1) - 1))
            /\ (osc.handled = 2 => TRANSPOSE_SEMITONES = ClampC(ClampC(0 + 1) + 1)))

\* the nested bundle has been handled to its end: five messages, the last a
\* decrement, and the offset is 1
C22_Witness ==
    /\ env.focus = "osc" /\ cfg.min = -24
    /\ osc.pc = "loop" /\ osc.recvd = 1 /\ osc.handled = 5
    /\ stdin.lines = 0 /\ brokerEvents = 0
    /\ osc.msg = Down1
    /\ TRANSPOSE_SEMITONES = 1

\* C23: a message whose address is none of the three configured paths is
\* handled without a change to the offset, the flags or the Exit Flag, and the
\* listener goes on with what follows it; when the network delivers only
\* packets that do not decode and messages on other addresses, no step of the
\* listener changes the offset, the flags or the Exit Flag, every receive leads
\* back to the loop or into the handling of the packet, and the listener ends
\* only when the Exit Flag is set.
C23_IgnoredPacketsChangeNothing ==
    /\ [][/\ (/\ osc.pc = "handle" /\ osc.stack # <<>> /\ osc' # osc
              /\ Head(osc.stack).kind = "msg"
              /\ Head(osc.stack).addr \notin
                    {transpose_path, transpose_up_path, transpose_down_path}) =>
                /\ UNCHANGED <<shared, lastSet>>
                /\ osc'.pc = "handle" /\ osc'.stack = Tail(osc.stack)
          /\ (env.focus = "ignored" /\ osc' # osc) =>
                /\ UNCHANGED <<shared, lastSet>>
                /\ (osc.pc = "recv" => osc'.pc \in {"loop", "handle"})
                /\ (osc.pc = "handle" => osc'.pc \in {"loop", "handle"})
                /\ (osc'.pc = "ended" => (osc.pc = "bind" \/ EXIT_FLAG))]_vars
    /\ []((env.focus = "ignored" /\ stdin.lines = 0) =>
            (TRANSPOSE_SEMITONES = 0 /\ ~EXIT_FLAG /\ lastSet = NoCall))

\* two packets have been received and dropped, among them messages on other
\* addresses, and the listener is in its next receive
C23_Witness ==
    /\ env.focus = "ignored"
    /\ osc.recvd = 2 /\ osc.handled = 2 /\ osc.pc = "recv"
    /\ osc.msg.addr = "/avatar/parameters/C4"
    /\ stdin.lines = 0 /\ TRANSPOSE_SEMITONES = 0

WriteFailed == \E i \in DOMAIN forwarder.errs : forwarder.errs[i]

\* C25: once a write to the MIDI output has failed, the forwarder leaves its
\* loop only when its queue is empty and closed; each non-empty message it
\* dequeues is transposed by the offset of that moment and handed to the
\* output; and the message whose write failed goes on to the two flag checks,
\* where it is enqueued to the transposed relay queue exactly when
\* relay-enabled is read as true and then send-original as false.
C25_ForwarderSurvivesWriteError ==
    /\ [][/\ (forwarder'.pc = "ended" /\ forwarder.pc # "ended") =>
                (forwarder.pc = "recv" /\ rx = <<>> /\ conn_in = "dropped")
          /\ (/\ WriteFailed /\ forwarder.pc = "recv" /\ Len(rx') < Len(rx)
              /\ Head(rx) # <<>>) =>
                /\ conn_out' = Append(conn_out,
                        [msg |-> Head(rx), t |-> TRANSPOSE_SEMITONES,
                         out |-> Transposed(Head(rx), TRANSPOSE_SEMITONES)])
                /\ Len(forwarder'.errs) = Len(forwarder.errs) + 1
                /\ forwarder'.pc = "check_enabled"
          /\ (/\ forwarder.errs # <<>> /\ Last(forwarder.errs)
              /\ forwarder.pc = "check_enabled" /\ forwarder' # forwarder) =>
                forwarder'.pc = (IF OSC_SENDING_ENABLED THEN "check_original" ELSE "recv")
          /\ (/\ forwarder.errs # <<>> /\ Last(forwarder.errs)
              /\ forwarder.pc = "check_original" /\ forwarder' # forwarder) =>
                /\ forwarder'.pc = "recv"
                /\ enqueued' = IF ~OSC_SEND_ORIGINAL /\ ReceiverAlive("transposed")
                               THEN [enqueued EXCEPT !["transposed"] =
                                        Append(@, Last(conn_out).out)]
                               ELSE enqueued]_vars
    /\ [](/\ Len(forwarder.errs) = Len(conn_out)
          /\ (forwarder.pc \in {"check_enabled", "check_original"} =>
                (conn_out # <<>> /\ forwarder.out_msg = Last(conn_out).out)))

\* the first write failed, its message went to the transposed relay queue all
\* the same, and the next message was transposed, written and relayed
C25_Witness ==
    /\ forwarder.errs = <<TRUE, FALSE>> /\ forwarder.pc = "recv"
    /\ Len(conn_out) = 2
    /\ conn_out[2] = [msg |-> NoteOn60, t |-> 24, out |-> <<144, 84, 100>>]
    /\ enqueued["transposed"] = <<conn_out[1].out, conn_out[2].out>>

OscEndedEarly == ~EXIT_FLAG /\ osc.pc = "ended"
RelayEndedEarly == ~EXIT_FLAG /\ \E r \in Streams : senders[r].pc = "ended"

\* C27: the step in which the control-protocol listener fails to bind, or a
\* relay fails to create its socket, changes that thread only; while the Exit
\* Flag is clear the forwarder, the bridge and run() have not ended; with the
\* control-protocol listener gone the bridge still raises the offset on a
\* transposeUp, with a relay gone the forwarder still hands every non-empty
\* message to the output and in the end has written all of them; and whenever
\* the Exit Flag is set after such a failure, every thread ends and run()
\* returns.
C27_FailedThreadEndsAlone ==
    /\ [][/\ (osc.pc = "bind" /\ osc'.pc = "ended") =>
                UNCHANGED <<shared, MQTT_CONNECTED, lastSet, stdin, mqtt, published, pipeline>>
          /\ \A r \in Streams :
                (senders[r].pc = "start" /\ senders'[r].pc = "ended") =>
                   /\ UNCHANGED <<shared, control, conn_in, callback, rx, osc_rx, forwarder,
                                  conn_out, mainThread>>
                   /\ \A q \in Streams \ {r} : senders'[q] = senders[q]
          /\ (OscEndedEarly /\ mqtt["main"].pc = "up" /\ mqtt'["main"] # mqtt["main"]) =>
                TRANSPOSE_SEMITONES' = mqtt["main"].current + 1
          /\ (/\ RelayEndedEarly /\ forwarder.pc = "recv" /\ Len(rx') < Len(rx)
              /\ Head(rx) # <<>>) =>
                (Len(conn_out') = Len(conn_out) + 1 /\ Last(conn_out').msg = Head(rx))]_vars
    /\ [](~EXIT_FLAG =>
            /\ forwarder.pc # "ended" /\ mainThread = "wait"
            /\ \A t \in MqttThreads : mqtt[t].pc # "ended")
    /\ []((OscEndedEarly \/ RelayEndedEarly) =>
            [](EXIT_FLAG => <>(mainThread = "returned" /\ AllThreadsEnded)))
    /\ [](RelayEndedEarly => <>[](Written = NonEmpty(enqueued["forwarder"])))

\* the control-protocol listener could not bind, and with the Exit Flag clear
\* the bridge has since raised the offset
C27_Witness ==
    /\ env.focus = "listeners"
    /\ OscEndedEarly
    /\ lastSet = [who |-> "mqtt", arg |-> 1, ret |-> 1] /\ TRANSPOSE_SEMITONES = 1
    /\ mqtt["main"].pc = "next"

\* C28: whenever the only bridge thread ends a processing iteration and a
\* state topic has been published on, in this iteration or before, by the
\* command handler, on ConnAck or by the compare-and-republish block, the
\* snapshot the thread keeps for that entity is the payload last published
\* on the topic.
C28_SnapshotIsLastPublished ==
    [][\A t \in MqttThreads :
         (/\ mqtt[t].pc = "sync" /\ mqtt'[t].pc = "next"
          /\ \A u \in MqttThreads \ {t} : mqtt[u].pc = "none")
         => (/\ (published'[T_transpose_state] # <<>> =>
                    published'[T_transpose_state] = to_string(mqtt'[t].last_state_sent))
             /\ (published'[T_osc_sending_enabled_state] # <<>> =>
                    published'[T_osc_sending_enabled_state] = BoolText(mqtt'[t].last_osc_enabled))
             /\ (published'[T_osc_send_original_state] # <<>> =>
                    published'[T_osc_send_original_state] = BoolText(mqtt'[t].last_send_original))
             /\ (published'[T_debug_enabled_state] # <<>> =>
                    published'[T_debug_enabled_state] = BoolText(mqtt'[t].last_debug_enabled)))]_vars

\* C29: the offset starts at 0 with 2 within the configured range, and the
\* control-protocol listener and the bridge each handle one increment while
\* nothing else touches the offset; the step in which the later of the two
\* finishes its increment leaves the offset at 2.
C29_ConcurrentIncrementsNotLost ==
    [][(/\ probe.fn = "command" /\ probe.kind = "up"
        /\ cfg.min <= 0 /\ cfg.max >= 2
        /\ stdin.lines = 0 /\ osc.recvd = 1 /\ osc.handled = 1 /\ brokerEvents = 1
        /\ \/ /\ mqtt["main"].pc = "up" /\ mqtt'["main"].pc # "up"
              /\ osc.pc # "up" /\ lastSet.who = "osc"
           \/ /\ osc.pc = "up" /\ osc'.pc # "up"
              /\ mqtt["main"].pc # "up" /\ lastSet.who = "mqtt")
       => TRANSPOSE_SEMITONES' = 2]_vars

\* C30: relay-enabled is true from the start and never switched off; once the
\* callback and the forwarder have both finished with every event that came
\* in, each non-empty event has been enqueued to one relay queue and not to
\* the other, so the two queues together have taken as many messages as events
\* came in, also when send-original was switched in between.
C30_EachEventToOneRelayQueue ==
    (/\ env.focus = "switch" /\ OSC_SENDING_ENABLED
     /\ callback.pc = "idle" /\ forwarder.pc = "recv" /\ rx = <<>>)
    => Len(NonEmpty(enqueued["original"])) + Len(enqueued["transposed"])
          = Len(NonEmpty(enqueued["forwarder"]))

\* C31: when the forwarder has written a note-on for input note 60 and later a
\* note-off for input note 60, the note-off carries the note number the
\* note-on went out with.
C31_NoteOffMatchesNoteOn ==
    \A i \in DOMAIN conn_out : \A j \in DOMAIN conn_out :
        (i < j /\ conn_out[i].msg = NoteOn60 /\ conn_out[j].msg = NoteOff60) =>
            conn_out[j].out[2] = conn_out[i].out[2]

\* C32: with one bridge thread, connected and between two iterations, whose
\* snapshots equal the shared state (the state is as the last iteration left
\* it), every state topic carries the current value of its entity.
C32_PublishedIsCurrent ==
    \A t \in MqttThreads :
        (/\ mqtt[t].pc \in {"next", "poll"} /\ mqtt[t].session
         /\ \A u \in MqttThreads \ {t} : mqtt[u].pc = "none"
         /\ mqtt[t].last_state_sent = TRANSPOSE_SEMITONES
         /\ mqtt[t].last_osc_enabled = OSC_SENDING_ENABLED
         /\ mqtt[t].last_send_original = OSC_SEND_ORIGINAL
         /\ mqtt[t].last_debug_enabled = DEBUG_ENABLED)
        => (/\ published[T_transpose_state] = to_string(TRANSPOSE_SEMITONES)
            /\ published[T_osc_sending_enabled_state] = BoolText(OSC_SENDING_ENABLED)
            /\ published[T_osc_send_original_state] = BoolText(OSC_SEND_ORIGINAL)
            /\ published[T_debug_enabled_state] = BoolText(DEBUG_ENABLED))

\* C33: the forwarder ends only in a step taken with the input connection
\* dropped and its queue empty; once it has ended, every non-empty message the
\* callback enqueued has been transposed and handed to the output, in order;
\* it has not ended while the input connection is open; and once the input
\* connection is dropped the forwarder does end.
C33_ForwarderEndsAfterDrain ==
    /\ [][(forwarder'.pc = "ended" /\ forwarder.pc # "ended") =>
            (/\ forwarder.pc = "recv" /\ conn_in = "dropped" /\ rx = <<>>
             /\ UNCHANGED <<conn_out, rx, enqueued>>)]_vars
    /\ [](forwarder.pc = "ended" =>
            /\ conn_in = "dropped" /\ rx = <<>>
            /\ Written = NonEmpty(enqueued["forwarder"])
            /\ \A i \in DOMAIN conn_out :
                  conn_out[i].out = Transposed(conn_out[i].msg, conn_out[i].t))
    /\ [](conn_in = "open" => forwarder.pc # "ended")
    /\ (conn_in = "dropped") ~> (forwarder.pc = "ended")

\* the forwarder has ended after writing both messages of the run
C33_Witness ==
    /\ forwarder.pc = "ended" /\ conn_in = "dropped"
    /\ Len(conn_out) = 2 /\ Len(enqueued["forwarder"]) = 2
    /\ conn_out[1].msg # conn_out[2].msg

\* whether a bridge thread has been spawned and has not ended
BridgeAlive(t) == mqtt[t].pc \notin {"none", "ended"}

\* C34: at every moment at most one bridge thread is alive.
C34_AtMostOneBridge == ~(BridgeAlive("main") /\ BridgeAlive("stdin"))

\* C35: while broker-enabled is false after `mqtt off` (the Exit Flag is
\* clear, so the flag was not cleared by an exit), no step of a bridge thread
\* changes the transpose offset or a feature flag.
C35_NoBrokerCommandAfterMqttOff ==
    [][(~MQTT_ENABLED /\ ~EXIT_FLAG /\ mqtt' # mqtt /\ stdin' = stdin /\ osc' = osc)
         => UNCHANGED <<TRANSPOSE_SEMITONES, flags>>]_vars

\* C36: in every state in which the command-line listener thread has ended,
\* the Exit Flag is set.
C36_ListenerEndsWithExitFlag == stdin.pc = "ended" => EXIT_FLAG

\* the chromatic names with '#' written as SHARP, and the octaves as text
SharpNames ==
    << <<"C">>, <<"C", "S", "H", "A", "R", "P">>, <<"D">>, <<"D", "S", "H", "A", "R", "P">>,
       <<"E">>, <<"F">>, <<"F", "S", "H", "A", "R", "P">>, <<"G">>,
       <<"G", "S", "H", "A", "R", "P">>, <<"A">>, <<"A", "S", "H", "A", "R", "P">>, <<"B">> >>
OctaveText ==
    << <<"-", "1">>, <<"0">>, <<"1">>, <<"2">>, <<"3">>, <<"4">>, <<"5">>, <<"6">>, <<"7">>,
       <<"8">>, <<"9">> >>

\* the address the specification gives note n
AddressOfNote(n) ==
    <<"/avatar/parameters/">> \o SharpNames[(n % 12) + 1] \o OctaveText[(n \div 12) + 1]

C38_AtMostOneBanner ==
    probe.fn = "banner" =>
        LET writing == {c \in BannerCallers : probe.pc[c] \in {"write_active", "write_broken"}}
        IN /\ Len(probe.stdout) + Cardinality(writing) <= 1
           /\ (Len(probe.stdout) + Cardinality(writing) = 1 => probe.BANNER_PRINTED)

\* run() and both bridge threads have made all their calls, of both
\* functions, and one banner is on stdout
C38_Witness ==
    /\ probe.fn = "banner"
    /\ probe.stdout = <<"Connections broken | Program tries reconnecting">>
    /\ probe.calls = [c \in BannerCallers |-> IF c = "run" THEN 1 ELSE MaxBannerCalls]
    /\ \A c \in BannerCallers : probe.pc[c] = "idle"

====
